---------------------------- MODULE Spec2Model ----------------------------
(***************************************************************************)
(* Model of the Friday assistant's session core:                           *)
(*   - GeminiBrain.execute_tool        (src/Backend/brain.py)              *)
(*   - AudioLoop.receive_audio, _save_final_chatlogs, run (src/main.py)    *)
(*   - AudioStateManager mute state    (src/main.py)                       *)
(*   - Logger transcript and transcription worker (src/Backend/logger.py)  *)
(*                                                                         *)
(* Texts are sequences of tokens; the token " " is whitespace, so that     *)
(* str.strip(), concatenation and equality behave as in the source.        *)
(***************************************************************************)
EXTENDS Integers, Sequences, FiniteSets, TLC

(***************************************************************************)
(* Bounds of the model (not program constants).                            *)
(***************************************************************************)
MaxTurns == 2
MaxTextLen == 2
MaxAudioQueue == 1
MaxCalls == 2
MaxWorkerItems == 1
MaxMuteOps == 3
\* stands for TRANSCRIPTION_CHUNK_THRESHOLD (25 frames, main.py 1158), scaled down
ChunkThreshold == 2
\* frames and chunks numbered in one session
MaxFrames == 6
MaxChunks == 2
\* failures the environment produces in one session
MaxFaults == 3
\* subscribers registered with add_state_change_callback
MaxSubscribers == 2

(***************************************************************************)
(* Texts.                                                                  *)
(***************************************************************************)
SP == " "
EmptyText == << >>

RECURSIVE lstrip(_)
lstrip(t) == IF t = << >> THEN << >>
             ELSE IF Head(t) = SP THEN lstrip(Tail(t)) ELSE t

RECURSIVE rstrip(_)
rstrip(t) == IF t = << >> THEN << >>
             ELSE IF t[Len(t)] = SP THEN rstrip(SubSeq(t, 1, Len(t) - 1)) ELSE t

\* str.strip(): drop leading and trailing whitespace
strip(t) == rstrip(lstrip(t))

(***************************************************************************)
(* GeminiBrain.execute_tool: the routing table.  The tool names are the    *)
(* branches of the if/elif chain, grouped by the shape of their branch.    *)
(***************************************************************************)
\* result = handler(...): the handler's own mapping is returned as is
DictTools == {"get_weather", "internet_search", "email_send", "email_read",
              "email_delete", "email_reply", "telegram_get_updates",
              "add_contact", "update_contact", "list_contacts", "delete_contact"}

\* (message, _) = handler(...) inside the branch's own try/except
GuardedTupleTools == {"telegram_send_message", "telegram_send_file"}

\* (message, artifact) = handler(...); status from the artifact's truthiness
ArtifactTools == {"generate_image", "generate_pdf", "generate_word", "generate_ppt",
                  "generate_excel", "convert_document", "convert_active_doc",
                  "convert_file_format", "compress_file"}

\* gated by AUTOMATION_AVAILABLE; status "success" whenever the handler returns
AutomationTools == {"open_app", "close_app", "manage_window", "set_volume",
                    "set_brightness", "get_brightness", "change_theme", "type_text",
                    "move_mouse", "click_mouse", "get_mouse_position", "set_clipboard",
                    "get_clipboard", "take_screenshot", "system_power", "google_search",
                    "youtube_search", "play_youtube", "generate_content",
                    "create_folder", "open_website_direct", "type_formatted_text",
                    "system_power_secure"}

\* branches whose result mapping has no "message" key
NoMessageTools == {"find_contact", "access_file_content", "search_data_folder",
                   "get_accessible_paths", "get_last_generated_file",
                   "get_last_converted_file"}

\* branches that build {status, message} themselves from the handler's value
MessageTools == {"recall_chat_history", "switch_groq_key", "switch_google_key"}

Registry == DictTools \cup GuardedTupleTools \cup ArtifactTools \cup AutomationTools
            \cup NoMessageTools \cup MessageTools

UnknownNames == {"no_such_tool", ""}

FunctionNames == Registry \cup UnknownNames

(***************************************************************************)
(* What the external tool collaborator does when it is invoked:            *)
(*   raises   - the handler raises an exception (excText is str(e))        *)
(*   ok       - a mapping handler reports "success"; a tuple handler       *)
(*              returns a truthy artifact / value; a telegram message      *)
(*              without "Failed"/"Error"                                   *)
(*   hasMsg   - a mapping handler's result carries a "message" key         *)
(***************************************************************************)
ExcTexts == {"", "boom"}

HandlerOutcomes == [raises : BOOLEAN, ok : BOOLEAN, hasMsg : BOOLEAN, excText : ExcTexts]

\* the arguments: can json.dumps encode them?
ArgMappings == [serializable : BOOLEAN]

StatusOf(ok) == IF ok THEN "success" ELSE "error"

\* f-strings are modelled as the tuple of their parts
IsNonEmptyMsg(m) == \E i \in 1..Len(m) : m[i] # ""

NoResult == [none |-> TRUE]

Returned(r, called) == [raised |-> FALSE, result |-> r, handlerCalled |-> called]
Raised(called) == [raised |-> TRUE, result |-> NoResult, handlerCalled |-> called]

AutomationUnavailable == [status |-> "error", message |-> <<"Automation not available">>]

\* an error result that carries the exception under another key
DispatchError_NoMessage(function_name, h) ==
    [status |-> "error", error |-> <<"Error executing ", function_name, ": ", h.excText>>]

\* brain.py 1242-1247: the dispatch boundary's except clause
DispatchError(function_name, h) ==
    [status |-> "error",
     message |-> <<"Error executing ", function_name, ": ", h.excText>>]

\* brain.py 891-1240: the result the if/elif chain leaves in `result`
\* (the handler is invoked iff the second component is TRUE)
RouteTool(function_name, h, automation) ==
    IF function_name \in DictTools THEN
        IF h.raises THEN <<DispatchError(function_name, h), TRUE>>
        ELSE IF h.hasMsg
             THEN <<[status |-> StatusOf(h.ok), message |-> <<"handler message">>], TRUE>>
             ELSE <<[status |-> StatusOf(h.ok), extra |-> "data"], TRUE>>
    ELSE IF function_name \in GuardedTupleTools THEN
        IF h.raises
        THEN <<[status |-> "error", message |-> <<"Telegram send failed: ", h.excText>>], TRUE>>
        ELSE <<[status |-> StatusOf(h.ok), message |-> <<"handler message">>], TRUE>>
    ELSE IF function_name \in ArtifactTools THEN
        IF h.raises THEN <<DispatchError(function_name, h), TRUE>>
        ELSE <<[status |-> StatusOf(h.ok), message |-> <<"handler message">>,
                extra |-> "file_path"], TRUE>>
    ELSE IF function_name \in AutomationTools THEN
        IF ~automation THEN <<AutomationUnavailable, FALSE>>
        ELSE IF h.raises THEN
            IF function_name = "open_app"
            THEN <<[status |-> "error", message |-> <<"Failed to open app: ", h.excText>>], TRUE>>
            ELSE <<DispatchError(function_name, h), TRUE>>
        ELSE <<[status |-> "success", message |-> <<"handler message">>], TRUE>>
    ELSE IF function_name \in NoMessageTools THEN
        IF h.raises THEN <<DispatchError(function_name, h), TRUE>>
        ELSE IF function_name \in {"find_contact", "access_file_content"}
             THEN <<[status |-> StatusOf(h.ok), extra |-> "content"], TRUE>>
             ELSE <<[status |-> "success", extra |-> "files"], TRUE>>
    ELSE IF function_name \in MessageTools THEN
        IF h.raises THEN <<DispatchError(function_name, h), TRUE>>
        ELSE IF function_name = "recall_chat_history"
             THEN <<[status |-> "success", message |-> <<"handler message">>,
                     extra |-> "count"], TRUE>>
             ELSE <<[status |-> StatusOf(h.ok), message |-> <<"Switched or failed">>], TRUE>>
    ELSE <<[status |-> "error", message |-> <<"Unknown function: ", function_name>>], FALSE>>

\* Logger.log_tool_call / log_tool_result: json.dumps runs outside their try
log_tool_call_raises(args) == ~args.serializable

\* brain.py 882-1250
execute_tool(function_name, args, h, automation) ==
    IF log_tool_call_raises(args) THEN Raised(FALSE)
    ELSE LET r == RouteTool(function_name, h, automation)
         IN  Returned(r[1], r[2])


(***************************************************************************)
(* State.                                                                  *)
(***************************************************************************)
VARIABLES
    \* execute_tool checked as a function: its input and its outcome
    tool_in, tool_out,
    \* AudioStateManager / AudioLoop flags
    is_muted, is_assistant_speaking, should_stop_speaking, shutdown_initiated,
    \* inbound audio queue (asyncio.Queue()): chunks tagged with their turn
    audio_in_queue,
    \* outbound frame queue (asyncio.Queue(maxsize=5))
    out_queue,
    \* turn accumulators and their fallback buffers
    current_turn_user_text, user_speech_buffer,
    current_turn_assistant_text, current_text_buffer,
    last_logged_user_text, last_logged_assistant_text,
    session_messages,
    \* chatlogs.json: records [role, content] with the turn and the writer
    \* that appended them kept as history fields
    chatlogs,
    \* Logger transcription worker
    transcription_enabled,
    transcription_queue, user_transcription_buffer, assistant_transcription_buffer,
    user_audio_chunk_count, assistant_audio_chunk_count,
    \* receive loop: position, calls of the current tool-call event, responses
    \* transmitted to the model, per-call outcome history, call ids handed out
    recv_pc, function_calls, tool_responses, tool_log, next_call_id,
    \* AudioLoop.run: "running" -> "finally" -> "closing" -> "ended"
    run_pc,
    \* history: index of the current turn
    turn,
    \* AudioStateManager: content of mute_state.txt, _last_state_change as seen
    \* by the debounce test, and the value returned by the last set call
    mute_state_file, last_state_change, mute_result,
    \* history: requests applied since the 200 ms window in progress began,
    \* whether the process started on the default, whether an unmute was applied
    \* and the outcome of the most recent write of mute_state.txt
    window_applied, boot_default, unmute_applied, last_write,
    \* history: what the voice gate made of the fragment now held in the user
    \* accumulator, when that fragment was heard while the assistant spoke
    voice_gate,
    \* history: the numbers given to the next frame that passes the capture gate
    \* and to the next chunk queued for playback (0: frames are not numbered)
    frame_no, chunk_no,
    \* listen_audio suspended in out_queue.put: the frame it holds
    put_waiting,
    \* the last frame handed to the model transport and the last chunk written
    \* to the speaker
    wire, speaker,
    \* history: did the (numbered) frame enqueued last have to wait for space
    last_put_waited,
    \* the failures the environment may still produce (device reads, secondary
    \* channels), and the device read errors met in a row
    fault_budget, read_errors,
    \* history: how _save_final_chatlogs ended, and the failures of secondary
    \* channels that were logged, in order
    final_flush, logged_errors,
    \* the control-plane handlers that write the mute state: the statement
    \* each one has reached, the value it was asked to set, the handlers
    \* executing (not suspended in an await), and the owner of _state_lock
    handler_pc, handler_arg, running, state_lock,
    \* the tasks of the task group: where each one is ("untracked" when the
    \* specification does not follow them), and history: where each one was
    \* when the shutdown flag was set
    task_pc, at_shutdown,
    \* the answer to the most recent stop request of the control plane
    stop_result,
    \* AudioStateManager._state_change_callbacks (subscribers are named by
    \* their place in the list), and history: the calls of subscribers made
    \* by the most recent set call
    state_change_callbacks, notified,
    \* history: the receive loop has flushed a turn (or has just started) and
    \* has not yet handled an event of the next one
    between_turns,
    \* the threads that call Logger.save_chat: the statement each one has
    \* reached ("untracked" when the specification takes a call as one step,
    \* "off" for a thread that was not started), the locals of its call, the
    \* calls started so far, and history: the entries whose call has returned
    \* after writing, in the order the calls returned
    save_pc, save_frame, save_clock, completed

tool_vars == <<tool_in, tool_out>>
flag_vars == <<is_muted, is_assistant_speaking, should_stop_speaking, shutdown_initiated>>
turn_vars == <<current_turn_user_text, user_speech_buffer, current_turn_assistant_text,
               current_text_buffer, last_logged_user_text, last_logged_assistant_text,
               session_messages>>
worker_vars == <<transcription_queue, user_transcription_buffer,
                 assistant_transcription_buffer>>
capture_vars == <<user_audio_chunk_count, assistant_audio_chunk_count, out_queue,
               transcription_enabled>>
call_vars == <<function_calls, tool_responses, tool_log, next_call_id>>
frame_vars == <<frame_no, chunk_no, put_waiting, wire, speaker, last_put_waited>>
env_vars == <<fault_budget, read_errors, final_flush, logged_errors>>
writer_vars == <<handler_pc, handler_arg, running, state_lock>>
task_vars == <<task_pc, at_shutdown>>
notify_vars == <<state_change_callbacks, notified>>
save_vars == <<save_pc, save_frame, save_clock, completed>>
mute_vars == <<mute_state_file, last_state_change, mute_result, window_applied,
               boot_default, unmute_applied, last_write>>

vars == <<tool_in, tool_out, out_queue, transcription_enabled, is_muted, is_assistant_speaking, should_stop_speaking,
          shutdown_initiated, audio_in_queue, current_turn_user_text, user_speech_buffer,
          current_turn_assistant_text, current_text_buffer, last_logged_user_text,
          last_logged_assistant_text, session_messages, chatlogs, transcription_queue,
          user_transcription_buffer, assistant_transcription_buffer,
          user_audio_chunk_count, assistant_audio_chunk_count, recv_pc, function_calls,
          tool_responses, tool_log, next_call_id, run_pc, turn, mute_state_file,
          last_state_change, mute_result, window_applied, boot_default,
          unmute_applied, last_write, voice_gate, frame_no, chunk_no, put_waiting,
          wire, speaker, last_put_waited, fault_budget, read_errors, final_flush,
          handler_pc, handler_arg, running, state_lock, task_pc, at_shutdown,
          stop_result, state_change_callbacks, notified, between_turns, save_pc,
          save_frame, save_clock, completed, logged_errors>>

(***************************************************************************)
(* Inputs of the session.                                                  *)
(***************************************************************************)
\* input-transcription fragments delivered by the model
UserFragments == {<<"hello">>, <<"hello", SP>>, <<SP>>, <<"stop">>, <<"shutdown friday">>}

\* text fragments streamed by the model
AssistantFragments == {<<"ok">>, <<SP>>}

\* what the transcription engine makes of a queued audio chunk ("" = nothing heard)
HeardTexts == {<<"hello">>, << >>}

\* names the model asks for in tool-call events
CalledNames == {"get_weather", "set_volume", "no_such_tool"}

\* `phrase in user_text_lower` for the stop phrases: every phrase contains "stop"
StopTokens == {"stop", "friday stop", "jarvis stop"}
ShutdownTokens == {"shutdown friday", "exit friday"}

HasToken(t, S) == \E i \in 1..Len(t) : t[i] \in S

(***************************************************************************)
(* Logger.save_chat / load_chatlogs: read the whole log, append, rewrite.  *)
(* readOk = FALSE: json.load fails and load_chatlogs returns [];           *)
(* writeOk = FALSE: the rewrite fails and the error is swallowed.          *)
(***************************************************************************)
load_chatlogs(logs, readOk) == IF readOk THEN logs ELSE << >>

save_chat(logs, role, content, writer, readOk, writeOk) ==
    IF writeOk
    THEN Append(load_chatlogs(logs, readOk),
                [role |-> role, content |-> content, turn |-> turn, writer |-> writer])
    ELSE logs

\* The outcome of one save_chat call's file accesses.  The session
\* specifications run with a healthy log file.
Fault == [r : BOOLEAN, w : BOOLEAN]
Healthy == [r |-> TRUE, w |-> TRUE]
SessionFaults == {Healthy}

\* Logger.log_chat: only USER and ASSISTANT reach chatlogs.json
log_chat(logs, role, content, writer, readOk, writeOk) ==
    IF role \in {"USER", "ASSISTANT"}
    THEN save_chat(logs, role, content, writer, readOk, writeOk)
    ELSE logs

(***************************************************************************)
(* Initial states.                                                         *)
(***************************************************************************)
ToolInputs == [name : FunctionNames, args : ArgMappings, h : HandlerOutcomes,
               automation : BOOLEAN]

NoToolInput == [name |-> "", args |-> [serializable |-> TRUE],
                h |-> [raises |-> FALSE, ok |-> TRUE, hasMsg |-> TRUE, excText |-> ""],
                automation |-> TRUE]

NotExecuted == [done |-> FALSE]

NoFragment == [verdict |-> "none", flip |-> FALSE]

\* logger.py 324-367: the threads that append to chatlogs.json
SaveThreads == {"receive_audio", "transcription_worker"}

NoSaveFrame == [entry |-> "none", chatlogs |-> << >>, before |-> << >>]

\* the calls of save_chat are taken as one step each
SavesUntracked ==
    /\ save_pc = [t \in SaveThreads |-> "untracked"]
    /\ save_frame = [t \in SaveThreads |-> NoSaveFrame]
    /\ save_clock = 0
    /\ completed = << >>

\* AudioLoop.__init__ (main.py 1125-1161); the queues are created in run()
InitLoopState ==
    /\ is_assistant_speaking = FALSE
    /\ should_stop_speaking = FALSE
    /\ shutdown_initiated = FALSE
    /\ audio_in_queue = << >>
    /\ out_queue = << >>
    /\ current_turn_user_text = EmptyText
    /\ user_speech_buffer = EmptyText
    /\ current_turn_assistant_text = EmptyText
    /\ current_text_buffer = EmptyText
    /\ last_logged_user_text = EmptyText
    /\ last_logged_assistant_text = EmptyText
    /\ session_messages = << >>
    /\ chatlogs = << >>
    /\ transcription_queue = << >>
    /\ user_transcription_buffer = << >>
    /\ assistant_transcription_buffer = << >>
    /\ user_audio_chunk_count = 0
    /\ assistant_audio_chunk_count = 0
    /\ recv_pc = "receiving"
    /\ function_calls = << >>
    /\ tool_responses = << >>
    /\ tool_log = << >>
    /\ next_call_id = 1
    /\ run_pc = "running"
    /\ turn = 0
    /\ voice_gate = NoFragment
    /\ put_waiting = << >>
    /\ wire = 0
    /\ speaker = 0
    /\ last_put_waited = FALSE
    /\ read_errors = 0
    /\ final_flush = "none"
    /\ logged_errors = << >>
    /\ stop_result = "none"
    /\ between_turns = TRUE

InitLoop == InitLoopState /\ SavesUntracked

\* main.py 1866-1871: the tasks AudioLoop.run creates in its task group
Tasks == {"send_realtime", "listen_audio", "receive_audio", "play_audio",
          "monitor_connection", "periodic_memory_sync"}

\* the tasks are not followed one by one
TasksUntracked ==
    /\ task_pc = [t \in Tasks |-> "untracked"]
    /\ at_shutdown = [t \in Tasks |-> "untracked"]

\* a session whose frames and chunks are not numbered, in an environment
\* without device or secondary-channel failures
InitSession ==
    /\ InitLoop
    /\ TasksUntracked
    /\ frame_no = 0
    /\ chunk_no = 0
    /\ fault_budget = 0

(***************************************************************************)
(* AudioStateManager: the persisted mute flag.                             *)
(***************************************************************************)
\* mute_state.txt as _load_mute_state finds it: absent, unreadable, holding
\* something else, or holding (after strip().lower()) "true" / "false"
MuteFileContents == {"missing", "unreadable", "garbage", "true", "false"}

\* a loader whose fallback leaves the microphone open
load_mute_state_open(file) == file = "true"

\* main.py 974-991
load_mute_state(file) ==
    IF file = "true" THEN TRUE
    ELSE IF file = "false" THEN FALSE
    ELSE TRUE

\* what a write_text call can do: succeed, fail before the file is opened,
\* or fail after open("w") has emptied it
WriteOutcomes == {"ok", "failed", "truncated"}

mute_text(state) == IF state THEN "true" ELSE "false"

\* a save that reports success without touching the file
save_mute_state_skipped(file, state, outcome) == file

\* main.py 993-1002: the file after _save_mute_state (its return value is
\* outcome = "ok")
save_mute_state(file, state, outcome) ==
    IF outcome = "ok" THEN mute_text(state)
    ELSE IF outcome = "truncated" THEN "garbage"
    ELSE file

\* main.py 468-471 and 708-711: the two handlers that set the mute state
Handlers == {"websocket_ui", "rest_api"}

NoCall == [variant |-> "none", requested |-> TRUE, applied |-> FALSE,
           success |-> FALSE, errors |-> {}]

\* main.py 965-972: AudioStateManager.__init__
InitMuteStore(callbacks) ==
    /\ state_change_callbacks = callbacks
    /\ notified = << >>
    /\ is_muted = load_mute_state(mute_state_file)
    /\ last_state_change = "zero"
    /\ mute_result = NoCall
    /\ window_applied = 0
    /\ boot_default = (mute_state_file \notin {"true", "false"})
    /\ unmute_applied = FALSE
    /\ last_write = "none"
    /\ handler_pc = [h \in Handlers |-> "idle"]
    /\ handler_arg = [h \in Handlers |-> TRUE]
    /\ running = {}
    /\ state_lock = "free"

\* main.py 900-907: startup_event registers one subscriber,
\* broadcast_mute_change
InitMuteState == InitMuteStore(<<1>>)

\* a session started from a well-formed state file
Init ==
    /\ tool_in = NoToolInput
    /\ tool_out = NotExecuted
    /\ mute_state_file \in {"true", "false"}
    /\ InitMuteState
    /\ transcription_enabled \in BOOLEAN
    /\ InitSession

(***************************************************************************)
(* ResponseReceiver: AudioLoop.receive_audio, one action per event.        *)
(***************************************************************************)
RecvReady == recv_pc = "receiving" /\ run_pc = "running" /\ ~shutdown_initiated

\* a queue that never reports itself full
queue_full_never(queue, maxsize) == FALSE

\* asyncio.Queue.full(): a queue created without maxsize (0) is never full
queue_full(queue, maxsize) == maxsize > 0 /\ Len(queue) >= maxsize

\* main.py 1863: self.audio_in_queue = asyncio.Queue()
InQueueMax == 0

\* the number given to a frame or chunk, and the number after it
Numbered(no) == no # 0
NextNo(no) == IF Numbered(no) THEN no + 1 ELSE no

\* main.py 1356-1397: audio chunk
ReceiveAudioChunk ==
    /\ between_turns' = FALSE
    /\ RecvReady
    /\ IF should_stop_speaking
       THEN /\ audio_in_queue' = << >>
            /\ should_stop_speaking' = FALSE
            /\ is_assistant_speaking' = FALSE
            /\ UNCHANGED chunk_no
       ELSE /\ Len(audio_in_queue) < MaxAudioQueue
            /\ chunk_no <= MaxChunks
            /\ ~queue_full(audio_in_queue, InQueueMax)
            /\ is_assistant_speaking' = TRUE
            /\ audio_in_queue' = Append(audio_in_queue, [turn |-> turn, n |-> chunk_no])
            /\ chunk_no' = NextNo(chunk_no)
            /\ UNCHANGED should_stop_speaking
    /\ UNCHANGED <<tool_vars, writer_vars, task_vars, stop_result, notify_vars, save_vars, voice_gate, frame_no, put_waiting, wire, speaker,
                   last_put_waited, env_vars, mute_vars, is_muted, shutdown_initiated,
                   turn_vars, chatlogs, worker_vars, capture_vars, recv_pc, call_vars,
                   run_pc, turn>>

\* main.py 1400-1405: text fragment
ReceiveText ==
    /\ between_turns' = FALSE
    /\ RecvReady
    /\ \E f \in AssistantFragments :
        /\ Len(current_turn_assistant_text) + Len(f) <= MaxTextLen
        /\ current_text_buffer' = current_text_buffer \o f
        /\ current_turn_assistant_text' = current_turn_assistant_text \o f
    /\ UNCHANGED <<tool_vars, writer_vars, task_vars, stop_result, notify_vars, save_vars, voice_gate, frame_vars, env_vars, mute_vars, flag_vars, audio_in_queue, current_turn_user_text,
                   user_speech_buffer, last_logged_user_text, last_logged_assistant_text,
                   session_messages, chatlogs, worker_vars, capture_vars, recv_pc,
                   call_vars, run_pc, turn>>

\* a gate that forgets the mute state
voice_interrupt_gate_any(speaking, muted) == speaking

\* main.py 1442: the voice-interrupt gate
voice_interrupt_gate(speaking, muted) == speaking /\ ~muted

\* a purge that leaves the queued audio in place
purged_none(queue) == queue

\* main.py 1450-1454: the inbound audio queue after the purge loop
purged(queue) == << >>

\* what becomes of a fragment handled while the assistant is speaking
Verdict(user_text) ==
    IF voice_interrupt_gate(is_assistant_speaking, is_muted)
    THEN IF HasToken(user_text, StopTokens) THEN "stop" ELSE "ignored"
    ELSE IF HasToken(user_text, ShutdownTokens) THEN "shutdown" ELSE "ignored"

\* history of the gate: a fragment heard while the assistant speaks is
\* recorded (flip tells two such fragments apart); one heard otherwise
\* takes its place in the accumulator
Gated(user_text) ==
    IF is_assistant_speaking
    THEN [verdict |-> Verdict(user_text), flip |-> ~voice_gate.flip]
    ELSE NoFragment

\* main.py 1430-1470: input transcription fragment
ReceiveInputTranscription ==
    /\ between_turns' = FALSE
    /\ RecvReady
    /\ \E user_text \in UserFragments :
        /\ user_speech_buffer' = user_text
        /\ current_turn_user_text' = user_text
        /\ voice_gate' = Gated(user_text)
        /\ IF voice_interrupt_gate(is_assistant_speaking, is_muted)
           THEN /\ IF HasToken(user_text, StopTokens)
                   THEN /\ should_stop_speaking' = TRUE
                        /\ is_assistant_speaking' = FALSE
                        /\ audio_in_queue' = purged(audio_in_queue)
                   ELSE UNCHANGED <<should_stop_speaking, is_assistant_speaking,
                                    audio_in_queue>>
                /\ UNCHANGED <<shutdown_initiated, recv_pc, run_pc>>
           ELSE IF HasToken(user_text, ShutdownTokens)
                THEN /\ shutdown_initiated' = TRUE
                     /\ recv_pc' = "exited"
                     /\ run_pc' = "finally"
                     /\ UNCHANGED <<should_stop_speaking, is_assistant_speaking,
                                    audio_in_queue>>
                ELSE UNCHANGED <<should_stop_speaking, is_assistant_speaking,
                                 audio_in_queue, shutdown_initiated, recv_pc, run_pc>>
    /\ UNCHANGED <<tool_vars, writer_vars, task_vars, stop_result, notify_vars, save_vars, frame_vars, env_vars, mute_vars, is_muted, current_turn_assistant_text,
                   current_text_buffer, last_logged_user_text,
                   last_logged_assistant_text, session_messages, chatlogs, worker_vars,
                   capture_vars, call_vars, turn>>

\* main.py 1473-1481: a tool-call event with N function calls arrives
ReceiveToolCall ==
    /\ between_turns' = FALSE
    /\ RecvReady
    /\ \E n \in 1..MaxCalls :
        /\ next_call_id + n - 1 <= MaxCalls
        /\ \E names \in [1..n -> CalledNames] :
            function_calls' = [i \in 1..n |-> [id |-> next_call_id + i - 1, name |-> names[i]]]
        /\ next_call_id' = next_call_id + n
    /\ recv_pc' = "tool_calls"
    /\ UNCHANGED <<tool_vars, writer_vars, task_vars, stop_result, notify_vars, save_vars, voice_gate, frame_vars, env_vars, mute_vars, flag_vars, audio_in_queue, turn_vars, chatlogs, worker_vars,
                   capture_vars, tool_responses, tool_log, run_pc, turn>>

\* main.py 1491-1515: what becomes of one function call
\*   dispatch raises           -> except at 1513: logged, nothing transmitted
\*   send_tool_response raises -> except at 1510: logged, nothing transmitted
call_outcome(out, sendOk) ==
    IF out.raised THEN "dispatch_raised"
    ELSE IF sendOk THEN "sent" ELSE "send_failed"

\* a failure that escapes the loop instead of being logged
recv_after_call_fatal(outcome, rest) ==
    IF outcome # "sent" THEN "exited"
    ELSE IF rest = << >> THEN "receiving" ELSE "tool_calls"

\* main.py 1510-1515: both except clauses only log, so the for loop goes on
\* to the next call and, after the last one, to the next event
recv_after_call(outcome, rest) ==
    IF rest = << >> THEN "receiving" ELSE "tool_calls"

\* main.py 1483-1515: one iteration of `for function_call in ...function_calls`
HandleFunctionCall ==
    /\ recv_pc = "tool_calls"
    /\ run_pc = "running"
    /\ function_calls # << >>
    /\ \E args \in ArgMappings, h \in HandlerOutcomes, automation \in BOOLEAN,
          sendOk \in BOOLEAN :
        LET function_call == Head(function_calls)
            out == execute_tool(function_call.name, args, h, automation)
            outcome == call_outcome(out, sendOk)
        IN  /\ tool_log' = Append(tool_log, [id |-> function_call.id,
                                             outcome |-> outcome])
            /\ tool_responses' =
                   IF outcome = "sent"
                   THEN Append(tool_responses, [id |-> function_call.id,
                                                name |-> function_call.name,
                                                status |-> out.result.status])
                   ELSE tool_responses
            /\ recv_pc' = recv_after_call(outcome, Tail(function_calls))
    /\ function_calls' = Tail(function_calls)
    /\ UNCHANGED <<tool_vars, writer_vars, task_vars, stop_result, notify_vars, between_turns, save_vars, voice_gate, frame_vars, env_vars, mute_vars, flag_vars, audio_in_queue, turn_vars, chatlogs, worker_vars,
                   capture_vars, next_call_id, run_pc, turn>>

\* main.py 1517-1520: tool-call cancellation: logged, nothing is sent back
ReceiveToolCancellation ==
    /\ RecvReady
    /\ next_call_id > 1
    /\ between_turns' = FALSE
    /\ UNCHANGED <<tool_vars, writer_vars, task_vars, stop_result, notify_vars, save_vars, voice_gate,
                   frame_vars, env_vars, mute_vars, flag_vars, audio_in_queue, turn_vars,
                   chatlogs, worker_vars, capture_vars, recv_pc, call_vars, run_pc, turn>>

\* a comparison with the last logged text that forgets the emptiness test
should_log_unguarded(text, last_logged) == strip(text) # last_logged

\* a test that logs a text again when it equals the last one logged
should_log_repeated(text, last_logged) == strip(text) # EmptyText

\* main.py 1530-1534 and 1737-1739: is the accumulated text written to the log?
should_log(text, last_logged) == strip(text) # EmptyText /\ strip(text) # last_logged

\* main.py 1559-1563 / 1593-1597: the accumulator is cleared only inside
\* `if text.strip():`
cleared(text) == IF strip(text) # EmptyText THEN EmptyText ELSE text

\* a flush that leaves the stop-speaking flag as it finds it
stop_after_turn_kept(flag) == flag

\* main.py 1602: the stop-speaking flag after the turn-completion flush
stop_after_turn(flag) == FALSE

\* a turn completion that leaves the speaking flag as it was
speaking_after_turn_kept(flag) == flag

\* main.py 1601: the speaking flag after the turn-completion code
speaking_after_turn(flag) == FALSE

\* main.py 1522-1619: the turn's receive() iterator ends: turn-completion flush
TurnComplete ==
    /\ between_turns' = TRUE
    /\ RecvReady
    /\ turn < MaxTurns
    /\ \E fu, fa \in SessionFaults :
        LET user_msg == strip(current_turn_user_text)
            assistant_msg == strip(current_turn_assistant_text)
            logU == should_log(current_turn_user_text, last_logged_user_text)
            logA == should_log(current_turn_assistant_text, last_logged_assistant_text)
            logs1 == IF logU THEN log_chat(chatlogs, "USER", user_msg, "turn_complete", fu.r, fu.w)
                     ELSE chatlogs
            msgs1 == IF logU THEN Append(session_messages,
                                         [role |-> "user", content |-> user_msg])
                     ELSE session_messages
        IN  /\ chatlogs' = IF logA THEN log_chat(logs1, "ASSISTANT", assistant_msg,
                                                 "turn_complete", fa.r, fa.w)
                           ELSE logs1
            /\ session_messages' = IF logA THEN Append(msgs1, [role |-> "assistant",
                                                              content |-> assistant_msg])
                                   ELSE msgs1
            /\ last_logged_user_text' = IF logU THEN user_msg ELSE last_logged_user_text
            /\ last_logged_assistant_text' = IF logA THEN assistant_msg
                                             ELSE last_logged_assistant_text
    /\ current_turn_user_text' = cleared(current_turn_user_text)
    /\ user_speech_buffer' = IF strip(current_turn_user_text) # EmptyText
                             THEN EmptyText ELSE user_speech_buffer
    /\ current_turn_assistant_text' = cleared(current_turn_assistant_text)
    /\ current_text_buffer' = IF strip(current_turn_assistant_text) # EmptyText
                              THEN EmptyText ELSE current_text_buffer
    /\ is_assistant_speaking' = speaking_after_turn(is_assistant_speaking)
    /\ should_stop_speaking' = stop_after_turn(should_stop_speaking)
    /\ audio_in_queue' = << >>
    /\ turn' = turn + 1
    /\ voice_gate' = IF strip(current_turn_user_text) # EmptyText THEN NoFragment
                     ELSE voice_gate
    /\ UNCHANGED <<tool_vars, writer_vars, task_vars, stop_result, notify_vars, save_vars, frame_vars, env_vars, mute_vars, is_muted, shutdown_initiated, worker_vars, capture_vars,
                   recv_pc, call_vars, run_pc>>

(***************************************************************************)
(* Control plane.                                                          *)
(***************************************************************************)
\* history kept by both set variants when a request is applied
MuteApplied(muted) ==
    /\ window_applied < MaxMuteOps
    /\ window_applied' = window_applied + 1
    /\ unmute_applied' = (unmute_applied \/ ~muted)
    /\ UNCHANGED boot_default

ControlPlaneUp == run_pc = "running"

\* a synchronisation with the audio loop that leaves the speaking flag alone
speaking_after_kept(muted, speaking) == speaking

\* main.py 1018-1019 and 1071-1072: with the audio loop registered, unmuting
\* resets is_assistant_speaking
speaking_after(muted, speaking) == IF ~muted THEN FALSE ELSE speaking

\* main.py 1004-1025: AudioStateManager.set_mute_state_sync; no debounce
\* test, and _last_state_change is reset to 0
set_mute_state_sync ==
    /\ ControlPlaneUp
    /\ \E muted \in BOOLEAN, o \in WriteOutcomes :
        /\ is_muted' = muted
        /\ last_state_change' = "zero"
        /\ mute_state_file' = save_mute_state(mute_state_file, muted, o)
        /\ last_write' = o
        /\ is_assistant_speaking' = speaking_after(muted, is_assistant_speaking)
        /\ mute_result' = [variant |-> "sync", requested |-> muted, applied |-> TRUE,
                           success |-> (o = "ok"), errors |-> {}]
        /\ MuteApplied(muted)
        /\ notified' = << >>
    /\ UNCHANGED <<tool_vars, writer_vars, task_vars, stop_result, state_change_callbacks, between_turns, save_vars, voice_gate, frame_vars, env_vars, should_stop_speaking, shutdown_initiated, audio_in_queue,
                   turn_vars, chatlogs, worker_vars, capture_vars, recv_pc, call_vars,
                   run_pc, turn>>

\* a notification loop that an exception of a subscriber ends
notify_until_raise(callbacks, new_state, raises) ==
    LET last == IF \E i \in 1..Len(callbacks) : i \in raises
                THEN CHOOSE i \in 1..Len(callbacks) :
                         i \in raises /\ \A j \in 1..(i - 1) : j \notin raises
                ELSE Len(callbacks)
    IN  [i \in 1..last |-> [subscriber |-> callbacks[i], value |-> new_state,
                            raised |-> i \in raises]]

\* main.py 1036-1042: _notify_state_change awaits every callback in its own
\* try/except, so each one is called whatever the others did
notify_state_change(callbacks, new_state, raises) ==
    [i \in 1..Len(callbacks) |-> [subscriber |-> callbacks[i], value |-> new_state,
                                  raised |-> i \in raises]]

\* the subscribers the environment can make raise
RaisingSubscribers == {r \in SUBSET (1..Len(state_change_callbacks)) :
                          Cardinality(r) <= fault_budget}

\* main.py 1053-1057: current_time - _last_state_change < 0.2
TooFrequent == last_state_change = "recent"

\* main.py 1048-1098: AudioStateManager.set_mute_state.  o1 is the outcome of
\* its own _save_mute_state (1063), o2 that of the write made by the
\* AudioLoop.is_muted setter (1069 -> 1168-1173), whose result is dropped.
set_mute_state ==
    /\ ControlPlaneUp
    /\ \E muted \in BOOLEAN, o1, o2 \in WriteOutcomes :
        IF TooFrequent
        THEN /\ mute_result' = [variant |-> "async", requested |-> muted,
                                applied |-> FALSE, success |-> FALSE,
                                errors |-> {"Too frequent toggles"}]
             /\ notified' = << >>
             /\ UNCHANGED <<is_muted, last_state_change, mute_state_file, last_write,
                            is_assistant_speaking, window_applied, boot_default,
                            unmute_applied, fault_budget>>
        ELSE /\ is_muted' = muted
             /\ last_state_change' = "recent"
             /\ mute_state_file' =
                    save_mute_state(save_mute_state(mute_state_file, muted, o1),
                                    muted, o2)
             /\ last_write' = o2
             /\ is_assistant_speaking' = speaking_after(muted, is_assistant_speaking)
             /\ mute_result' = [variant |-> "async", requested |-> muted,
                                applied |-> TRUE, success |-> (o1 = "ok"),
                                errors |-> IF o1 = "ok" THEN {}
                                           ELSE {"file_save_failed"}]
             /\ MuteApplied(muted)
             /\ \E raises \in RaisingSubscribers :
                    /\ notified' = notify_state_change(state_change_callbacks, muted,
                                                       raises)
                    /\ fault_budget' = fault_budget - Cardinality(raises)
    /\ UNCHANGED <<tool_vars, writer_vars, task_vars, stop_result, state_change_callbacks, between_turns, save_vars, voice_gate, frame_vars, read_errors, final_flush, logged_errors, should_stop_speaking, shutdown_initiated, audio_in_queue,
                   turn_vars, chatlogs, worker_vars, capture_vars, recv_pc, call_vars,
                   run_pc, turn>>

\* 200 ms pass without a mute request
DebounceWindowElapses ==
    /\ ControlPlaneUp
    /\ last_state_change' = IF last_state_change = "recent" THEN "old"
                            ELSE last_state_change
    /\ window_applied' = 0
    /\ UNCHANGED <<tool_vars, writer_vars, task_vars, stop_result, notify_vars, between_turns, save_vars, voice_gate, frame_vars, env_vars, flag_vars, audio_in_queue, turn_vars, chatlogs,
                   worker_vars, capture_vars, recv_pc, call_vars, run_pc, turn,
                   mute_state_file, mute_result, boot_default, unmute_applied,
                   last_write>>

(***************************************************************************)
(* The same writers statement by statement, as the handlers of the control *)
(* plane run them on the event loop.                                       *)
(***************************************************************************)
\* an event loop that runs callbacks side by side
loop_free_threads(executing) == TRUE

\* main.py 1960-1980: the control plane and the audio loop are tasks of one
\* event loop, which starts or resumes a callback only when no other one is
\* executing
loop_free(executing) == executing = {}

\* what a statement of a writer leaves alone
writer_frame == <<tool_vars, task_vars, stop_result, state_change_callbacks, between_turns, save_vars, voice_gate, frame_vars, env_vars, should_stop_speaking,
                  shutdown_initiated, audio_in_queue, turn_vars, chatlogs, worker_vars,
                  capture_vars, recv_pc, call_vars, run_pc, turn, mute_result,
                  window_applied, boot_default, unmute_applied>>

\* handler h executes and has reached statement pc
At(h, pc) == handler_pc[h] = pc /\ h \in running

Goto(h, pc) == handler_pc' = [handler_pc EXCEPT ![h] = pc]

\* main.py 461-468, 703-708: a toggle_mic message or a POST /api/mic-state
\* arrives and its handler runs up to the call of set_mute_state_sync
HandlerStart ==
    \E h \in Handlers, muted \in BOOLEAN :
        /\ ControlPlaneUp
        /\ handler_pc[h] = "idle"
        /\ loop_free(running)
        /\ running' = running \cup {h}
        /\ handler_arg' = [handler_arg EXCEPT ![h] = muted]
        /\ Goto(h, "sync_assign")
        /\ UNCHANGED <<writer_frame, notified, state_lock, is_muted, last_state_change,
                       mute_state_file, last_write, is_assistant_speaking>>

\* main.py 1007-1009: set_mute_state_sync assigns the flag
SyncAssign ==
    \E h \in Handlers :
        /\ At(h, "sync_assign")
        /\ is_muted' = handler_arg[h]
        /\ last_state_change' = "zero"
        /\ notified' = << >>
        /\ Goto(h, "sync_save")
        /\ UNCHANGED <<writer_frame, handler_arg, running, state_lock, mute_state_file,
                       last_write, is_assistant_speaking>>

\* main.py 1012: set_mute_state_sync writes the file
SyncSave ==
    \E h \in Handlers, o \in WriteOutcomes :
        /\ At(h, "sync_save")
        /\ mute_state_file' = save_mute_state(mute_state_file, handler_arg[h], o)
        /\ last_write' = o
        /\ Goto(h, "sync_loop")
        /\ UNCHANGED <<writer_frame, notified, handler_arg, running, state_lock, is_muted,
                       last_state_change, is_assistant_speaking>>

\* main.py 1015-1022: set_mute_state_sync assigns the flag through the audio
\* loop and returns
SyncLoop ==
    \E h \in Handlers :
        /\ At(h, "sync_loop")
        /\ is_muted' = handler_arg[h]
        /\ is_assistant_speaking' = speaking_after(handler_arg[h], is_assistant_speaking)
        /\ Goto(h, "lock")
        /\ UNCHANGED <<writer_frame, notified, handler_arg, running, state_lock, last_state_change,
                       mute_state_file, last_write>>

\* main.py 471/711 and 1050: `async with self._state_lock`; the handler is
\* suspended when another one holds the lock
AcquireLock ==
    \E h \in Handlers :
        /\ At(h, "lock")
        /\ IF state_lock = "free"
           THEN /\ state_lock' = h
                /\ Goto(h, "async_test")
                /\ UNCHANGED running
           ELSE /\ running' = running \ {h}
                /\ Goto(h, "lock_wait")
                /\ UNCHANGED state_lock
        /\ UNCHANGED <<writer_frame, notified, handler_arg, is_muted, last_state_change,
                       mute_state_file, last_write, is_assistant_speaking>>

\* the lock was released: the suspended handler takes it and is resumed
LockWake ==
    \E h \in Handlers :
        /\ handler_pc[h] = "lock_wait"
        /\ state_lock = "free"
        /\ loop_free(running)
        /\ state_lock' = h
        /\ running' = running \cup {h}
        /\ Goto(h, "async_test")
        /\ UNCHANGED <<writer_frame, notified, handler_arg, is_muted, last_state_change,
                       mute_state_file, last_write, is_assistant_speaking>>

\* main.py 1051-1060: the debounce test of set_mute_state; a rejected call
\* returns, an accepted one assigns the flag
AsyncTest ==
    \E h \in Handlers :
        /\ At(h, "async_test")
        /\ IF TooFrequent
           THEN /\ state_lock' = "free"
                /\ running' = running \ {h}
                /\ Goto(h, "idle")
                /\ notified' = << >>
                /\ UNCHANGED <<is_muted, last_state_change>>
           ELSE /\ is_muted' = handler_arg[h]
                /\ last_state_change' = "recent"
                /\ Goto(h, "async_save")
                /\ UNCHANGED <<state_lock, running, notified>>
        /\ UNCHANGED <<writer_frame, handler_arg, mute_state_file, last_write,
                       is_assistant_speaking>>

\* main.py 1063: set_mute_state writes the file
AsyncSave ==
    \E h \in Handlers, o \in WriteOutcomes :
        /\ At(h, "async_save")
        /\ mute_state_file' = save_mute_state(mute_state_file, handler_arg[h], o)
        /\ last_write' = o
        /\ Goto(h, "setter_assign")
        /\ UNCHANGED <<writer_frame, notified, handler_arg, running, state_lock, is_muted,
                       last_state_change, is_assistant_speaking>>

\* main.py 1069 -> 1172: the AudioLoop.is_muted setter assigns the flag
SetterAssign ==
    \E h \in Handlers :
        /\ At(h, "setter_assign")
        /\ is_muted' = handler_arg[h]
        /\ Goto(h, "setter_save")
        /\ UNCHANGED <<writer_frame, notified, handler_arg, running, state_lock, last_state_change,
                       mute_state_file, last_write, is_assistant_speaking>>

\* main.py 1173, 1071-1072: the setter writes the file, and an unmute resets
\* the speaking flag
SetterSave ==
    \E h \in Handlers, o \in WriteOutcomes :
        /\ At(h, "setter_save")
        /\ mute_state_file' = save_mute_state(mute_state_file, handler_arg[h], o)
        /\ last_write' = o
        /\ is_assistant_speaking' = speaking_after(handler_arg[h], is_assistant_speaking)
        /\ Goto(h, "notify")
        /\ UNCHANGED <<writer_frame, notified, handler_arg, running, state_lock, is_muted,
                       last_state_change>>

\* main.py 1079 -> 1036-1042: the handler is suspended in the broadcast of the
\* change, still holding the lock
Notify ==
    \E h \in Handlers :
        /\ At(h, "notify")
        /\ running' = running \ {h}
        /\ Goto(h, "notifying")
        \* (no subscriber raises in the specifications that follow the handlers
        \* statement by statement)
        /\ notified' = notify_state_change(state_change_callbacks, handler_arg[h], {})
        /\ UNCHANGED <<writer_frame, handler_arg, state_lock, is_muted, last_state_change,
                       mute_state_file, last_write, is_assistant_speaking>>

\* main.py 1081-1098, 474-477/714-719: the broadcast is over; the handler
\* leaves the lock, builds its result and is suspended in its answer
NotifyDone ==
    \E h \in Handlers :
        /\ handler_pc[h] = "notifying"
        /\ loop_free(running)
        /\ state_lock' = "free"
        /\ Goto(h, "idle")
        /\ UNCHANGED <<writer_frame, notified, handler_arg, running, is_muted, last_state_change,
                       mute_state_file, last_write, is_assistant_speaking>>

\* main.py 1161, 1961-1965: the audio loop registers itself in
\* AudioLoop.__init__, before the task of the control plane is created
is_audio_loop_ready == TRUE

\* a stop request that does not look at the mute flag
stop_verdict_unmuted(ready, muted, speaking) ==
    IF ~ready THEN "no_audio_loop"
    ELSE IF ~speaking THEN "not_speaking"
    ELSE "stopped"

\* main.py 820-853 and 496-521: the tests of a stop request, in their order
stop_verdict(ready, muted, speaking) ==
    IF ~ready THEN "no_audio_loop"
    ELSE IF muted THEN "mic_muted"
    ELSE IF ~speaking THEN "not_speaking"
    ELSE "stopped"

\* main.py 816-864: stop_speaking_api, and 495-523: the stop_jarvis message
\* of the websocket
stop_speaking_api ==
    /\ run_pc = "running"
    /\ stop_result' = stop_verdict(is_audio_loop_ready, is_muted, is_assistant_speaking)
    /\ should_stop_speaking' = IF stop_result' = "stopped" THEN TRUE
                               ELSE should_stop_speaking
    /\ UNCHANGED <<tool_vars, writer_vars, task_vars, notify_vars, between_turns, save_vars, voice_gate, frame_vars, env_vars, mute_vars, is_muted, is_assistant_speaking, shutdown_initiated,
                   audio_in_queue, turn_vars, chatlogs, worker_vars, capture_vars, recv_pc,
                   call_vars, run_pc, turn>>

(***************************************************************************)
(* Capture, transmit and playback tasks.                                   *)
(***************************************************************************)
\* main.py 1864: asyncio.Queue(maxsize=5)
OutQueueMax == 5

\* chunks handed to the worker so far: queued, buffered, or already written
WorkerLines == Cardinality({i \in 1..Len(chatlogs) :
                               chatlogs[i].writer \in {"worker", "close"}})

WorkerLoad == Len(transcription_queue) + Len(user_transcription_buffer)
              + Len(assistant_transcription_buffer) + WorkerLines

\* logger.py 209-226: Logger.transcribe_audio_chunk
transcribe_audio_chunk(queue, role) ==
    IF ~transcription_enabled THEN queue ELSE Append(queue, role)

\* a gate that looks at the mute flag only
capture_gate_mute_only(muted, speaking) == ~muted

\* main.py 1216: the capture gate
capture_gate(muted, speaking) == ~muted /\ ~speaking

\* a gate that lets every dequeued frame through
transmit_gate_open(muted, speaking) == TRUE

\* main.py 1271: the transmit gate
transmit_gate(muted, speaking) == ~muted /\ ~speaking

\* a queue that hands out its newest item
queue_get_newest(queue) == [item |-> queue[Len(queue)],
                            rest |-> SubSeq(queue, 1, Len(queue) - 1)]

\* asyncio.Queue.get(): the oldest item leaves the queue
queue_get(queue) == [item |-> Head(queue), rest |-> Tail(queue)]

\* an except clause that lets the error escape
except_nothing(next_pc, escape_pc) == escape_pc

\* `except Exception as e: Logger.log(...)` (main.py 1691-1692, 1721-1722,
\* 1778-1781, logger.py 225-226): the error is logged and control goes on
except_exception(next_pc, escape_pc) == next_pc

\* outcomes the environment can give to an operation of a secondary channel
FaultOutcomes == IF fault_budget > 0 THEN {"ok", "failed"} ELSE {"ok"}

\* logger.py 209-226: Logger.transcribe_audio_chunk called from an audio
\* task; a failing queue.put is logged and swallowed
QueueForTranscription(role) ==
    \E put \in FaultOutcomes :
        IF put = "ok" \/ ~transcription_enabled
        THEN /\ transcription_queue' = transcribe_audio_chunk(transcription_queue, role)
             /\ UNCHANGED <<logged_errors, fault_budget, run_pc>>
        ELSE /\ logged_errors' = Append(logged_errors, "transcription_queue")
             /\ fault_budget' = fault_budget - 1
             /\ run_pc' = except_exception(run_pc, "finally")
             /\ UNCHANGED transcription_queue

\* main.py 1222-1238: the frame is added to the user audio buffer, which is
\* handed to the transcription worker at the threshold
BufferUserAudio ==
    IF user_audio_chunk_count + 1 >= ChunkThreshold
    THEN /\ WorkerLoad < MaxWorkerItems
         /\ QueueForTranscription("USER")
         /\ user_audio_chunk_count' = 0
    ELSE /\ user_audio_chunk_count' = user_audio_chunk_count + 1
         /\ UNCHANGED <<transcription_queue, logged_errors, fault_budget, run_pc>>

\* outcomes of audio_stream.read
ReadOutcomes == IF fault_budget > 0 THEN {"frame", "oserror", "error"} ELSE {"frame"}

\* main.py 1204-1261: one iteration of listen_audio, from the frame read to
\* the next read or to the suspension in out_queue.put
ListenAudio ==
    /\ run_pc = "running"
    /\ ~shutdown_initiated
    /\ put_waiting = << >>
    /\ \E read \in ReadOutcomes :
        CASE read = "frame" ->
               /\ read_errors' = 0
               /\ UNCHANGED recv_pc
               /\ IF capture_gate(is_muted, is_assistant_speaking)
                  THEN /\ frame_no <= MaxFrames
                       /\ frame_no' = NextNo(frame_no)
                       /\ IF queue_full(out_queue, OutQueueMax)
                          THEN /\ put_waiting' = <<frame_no>>
                               /\ UNCHANGED <<out_queue, last_put_waited,
                                              user_audio_chunk_count, transcription_queue,
                                              logged_errors, fault_budget, run_pc>>
                          ELSE /\ out_queue' = Append(out_queue, frame_no)
                               /\ last_put_waited' = FALSE
                               /\ BufferUserAudio
                               /\ UNCHANGED put_waiting
                  ELSE UNCHANGED <<out_queue, user_audio_chunk_count, transcription_queue,
                                   frame_no, put_waiting, last_put_waited, logged_errors,
                                   fault_budget, run_pc>>
          [] read = "oserror" ->
               \* 1243-1248: warning, sleep(0.1), continue
               /\ read_errors' = read_errors + 1
               /\ fault_budget' = fault_budget - 1
               /\ UNCHANGED <<out_queue, user_audio_chunk_count, transcription_queue,
                              frame_no, put_waiting, last_put_waited, logged_errors,
                              run_pc, recv_pc>>
          [] read = "error" ->
               \* 1249-1252, 1258-1261: raised out of the task; the task group
               \* cancels the other tasks
               /\ fault_budget' = fault_budget - 1
               /\ run_pc' = "finally"
               /\ recv_pc' = "exited"
               /\ UNCHANGED <<out_queue, user_audio_chunk_count, transcription_queue,
                              frame_no, put_waiting, last_put_waited, logged_errors,
                              read_errors>>
    /\ UNCHANGED <<tool_vars, writer_vars, task_vars, stop_result, notify_vars, between_turns, save_vars, voice_gate, chunk_no, wire, speaker, final_flush, mute_vars,
                   flag_vars, audio_in_queue, turn_vars, chatlogs,
                   transcription_enabled, user_transcription_buffer,
                   assistant_transcription_buffer, assistant_audio_chunk_count,
                   call_vars, turn>>

\* main.py 1219-1238: the transmitter has made room; out_queue.put returns
\* and the iteration goes on
ListenPut ==
    /\ run_pc = "running"
    /\ put_waiting # << >>
    /\ ~queue_full(out_queue, OutQueueMax)
    /\ out_queue' = Append(out_queue, put_waiting[1])
    /\ put_waiting' = << >>
    /\ last_put_waited' = Numbered(put_waiting[1])
    /\ BufferUserAudio
    /\ UNCHANGED <<tool_vars, writer_vars, task_vars, stop_result, notify_vars, between_turns, save_vars, voice_gate, frame_no, chunk_no, wire, speaker, read_errors,
                   final_flush, mute_vars, flag_vars, audio_in_queue, turn_vars, chatlogs,
                   transcription_enabled, user_transcription_buffer,
                   assistant_transcription_buffer, assistant_audio_chunk_count,
                   recv_pc, call_vars, turn>>

\* main.py 1267-1279: one iteration of send_realtime
SendRealtime ==
    /\ run_pc = "running"
    /\ ~shutdown_initiated
    /\ out_queue # << >>
    /\ out_queue' = queue_get(out_queue).rest
    /\ wire' = IF transmit_gate(is_muted, is_assistant_speaking)
               THEN queue_get(out_queue).item ELSE wire
    /\ UNCHANGED <<tool_vars, writer_vars, task_vars, stop_result, notify_vars, between_turns, save_vars, voice_gate, frame_no, chunk_no, put_waiting, speaker,
                   last_put_waited, env_vars, mute_vars, flag_vars, audio_in_queue,
                   turn_vars, chatlogs, transcription_enabled, worker_vars,
                   user_audio_chunk_count, assistant_audio_chunk_count, recv_pc,
                   call_vars, run_pc, turn>>

\* main.py 1643-1667: one iteration of play_audio
PlayAudio ==
    /\ run_pc = "running"
    /\ ~shutdown_initiated
    /\ audio_in_queue # << >>
    /\ audio_in_queue' = queue_get(audio_in_queue).rest
    /\ speaker' = queue_get(audio_in_queue).item.n
    /\ IF assistant_audio_chunk_count + 1 >= ChunkThreshold
       THEN /\ WorkerLoad < MaxWorkerItems
            /\ QueueForTranscription("ASSISTANT")
            /\ assistant_audio_chunk_count' = 0
       ELSE /\ assistant_audio_chunk_count' = assistant_audio_chunk_count + 1
            /\ UNCHANGED <<transcription_queue, logged_errors, fault_budget, run_pc>>
    /\ UNCHANGED <<tool_vars, writer_vars, task_vars, stop_result, notify_vars, between_turns, save_vars, voice_gate, frame_no, chunk_no, put_waiting, wire,
                   last_put_waited, read_errors, final_flush, mute_vars, flag_vars,
                   out_queue, turn_vars, chatlogs, transcription_enabled,
                   user_transcription_buffer, assistant_transcription_buffer,
                   user_audio_chunk_count, recv_pc, call_vars, turn>>

\* main.py 1686: the silent keep-alive frame, told apart from the captured
\* frames, which carry their number
KeepAliveFrame == -1

\* where frames are not numbered, the keep-alive is a frame like the others
keep_alive == IF frame_no = 0 THEN 0 ELSE KeepAliveFrame

\* main.py 1674-1696: monitor_connection wakes up; after three minutes without
\* activity it queues a silent keep-alive frame
MonitorConnection ==
    /\ run_pc = "running"
    /\ ~shutdown_initiated
    /\ \E inactive \in BOOLEAN, put \in FaultOutcomes :
        IF ~inactive
        THEN UNCHANGED <<out_queue, logged_errors, fault_budget, run_pc>>
        ELSE IF put = "ok"
             THEN /\ ~queue_full(out_queue, OutQueueMax)
                  /\ out_queue' = Append(out_queue, keep_alive)
                  /\ UNCHANGED <<logged_errors, fault_budget, run_pc>>
             ELSE /\ logged_errors' = Append(logged_errors, "keep_alive")
                  /\ fault_budget' = fault_budget - 1
                  /\ run_pc' = except_exception(run_pc, "finally")
                  /\ UNCHANGED out_queue
    /\ UNCHANGED <<tool_vars, writer_vars, task_vars, stop_result, notify_vars, between_turns, save_vars, voice_gate, frame_vars, read_errors, final_flush, mute_vars,
                   flag_vars, audio_in_queue, turn_vars, chatlogs, transcription_enabled,
                   worker_vars, user_audio_chunk_count, assistant_audio_chunk_count,
                   recv_pc, call_vars, turn>>

\* main.py 1698-1728: periodic_memory_sync wakes up and syncs the transcript
\* to the memory store
PeriodicMemorySync ==
    /\ run_pc = "running"
    /\ ~shutdown_initiated
    /\ \E sync \in FaultOutcomes :
        IF sync = "ok"
        THEN UNCHANGED <<logged_errors, fault_budget, run_pc>>
        ELSE /\ logged_errors' = Append(logged_errors, "periodic_sync")
             /\ fault_budget' = fault_budget - 1
             /\ run_pc' = except_exception(run_pc, "finally")
    /\ UNCHANGED <<tool_vars, writer_vars, task_vars, stop_result, notify_vars, between_turns, save_vars, voice_gate, frame_vars, read_errors, final_flush, mute_vars,
                   flag_vars, audio_in_queue, turn_vars, chatlogs, capture_vars,
                   worker_vars, recv_pc, call_vars, turn>>

(***************************************************************************)
(* Logger transcription worker thread.                                     *)
(***************************************************************************)
RECURSIVE join(_)
\* " ".join(buffer)
join(buffer) == IF buffer = << >> THEN EmptyText
                ELSE IF Len(buffer) = 1 THEN buffer[1]
                ELSE buffer[1] \o <<SP>> \o join(Tail(buffer))

WorkerRunning == transcription_enabled /\ run_pc # "ended"

\* logger.py 106-129: an item is taken from the queue and transcribed
WorkerTranscribe ==
    /\ WorkerRunning
    /\ transcription_queue # << >>
    /\ \E text \in HeardTexts :
        LET role == Head(transcription_queue)
        IN  /\ user_transcription_buffer' =
                   IF text # EmptyText /\ role = "USER"
                   THEN Append(user_transcription_buffer, text)
                   ELSE user_transcription_buffer
            /\ assistant_transcription_buffer' =
                   IF text # EmptyText /\ role = "ASSISTANT"
                   THEN Append(assistant_transcription_buffer, text)
                   ELSE assistant_transcription_buffer
    /\ transcription_queue' = Tail(transcription_queue)
    /\ UNCHANGED <<tool_vars, writer_vars, task_vars, stop_result, notify_vars, between_turns, save_vars, voice_gate, frame_vars, env_vars, mute_vars, flag_vars, audio_in_queue, turn_vars, chatlogs, capture_vars,
                   recv_pc, call_vars, run_pc, turn>>

\* logger.py 138-158: a buffer whose save delay has passed is logged and cleared
save_buffered(logs, buffer, role, due, writer, readOk, writeOk) ==
    IF buffer # << >> /\ due /\ strip(join(buffer)) # EmptyText
    THEN log_chat(logs, role, strip(join(buffer)), writer, readOk, writeOk)
    ELSE logs

\* logger.py 131-134, 138-158: queue.Empty -> _check_and_save_buffered_transcriptions
WorkerIdle ==
    /\ WorkerRunning
    /\ transcription_queue = << >>
    /\ \E dueU, dueA \in BOOLEAN, fu, fa \in SessionFaults :
        /\ chatlogs' = save_buffered(
                           save_buffered(chatlogs, user_transcription_buffer, "USER",
                                         dueU, "worker", fu.r, fu.w),
                           assistant_transcription_buffer, "ASSISTANT", dueA, "worker",
                           fa.r, fa.w)
        /\ user_transcription_buffer' =
               IF user_transcription_buffer # << >> /\ dueU THEN << >>
               ELSE user_transcription_buffer
        /\ assistant_transcription_buffer' =
               IF assistant_transcription_buffer # << >> /\ dueA THEN << >>
               ELSE assistant_transcription_buffer
    /\ UNCHANGED <<tool_vars, writer_vars, task_vars, stop_result, notify_vars, between_turns, save_vars, voice_gate, frame_vars, env_vars, mute_vars, flag_vars, audio_in_queue, turn_vars, capture_vars,
                   transcription_queue, recv_pc, call_vars, run_pc, turn>>

(***************************************************************************)
(* SessionSupervisor: AudioLoop.run and the shutdown flush.                *)
(***************************************************************************)
\* main.py 1846-1897: the session ends because an exception escapes a task or
\* an interrupt signal arrives; the receive task is cancelled where it waits.
\* flagged: the KeyboardInterrupt handler of a task ran (main.py 1254-1257,
\* 1621-1624) and set the shutdown flag before the finally block.
SessionAbort ==
    /\ run_pc = "running"
    /\ \E flagged \in BOOLEAN :
        shutdown_initiated' = (shutdown_initiated \/ flagged)
    /\ recv_pc' = "exited"
    /\ run_pc' = "finally"
    /\ UNCHANGED <<tool_vars, writer_vars, task_vars, stop_result, notify_vars, between_turns, save_vars, voice_gate, frame_vars, env_vars, mute_vars, is_muted, is_assistant_speaking, should_stop_speaking,
                   audio_in_queue, turn_vars, chatlogs, worker_vars, capture_vars,
                   call_vars, turn>>

\* AudioLoop.__init__ (main.py 1125-1161) never assigns all_user_messages or
\* all_assistant_messages: the append at 1741 / 1749 raises AttributeError,
\* which the except at 1762 swallows, ending _save_final_chatlogs.
all_user_messages_defined == FALSE
all_assistant_messages_defined == FALSE

\* main.py 1737-1742
final_user(st, f) ==
    IF st.aborted \/ ~should_log(current_turn_user_text, last_logged_user_text) THEN st
    ELSE [logs |-> log_chat(st.logs, "USER", strip(current_turn_user_text),
                            "shutdown", f.r, f.w),
          aborted |-> ~all_user_messages_defined]

\* main.py 1745-1750
final_assistant(st, f) ==
    IF st.aborted \/ ~should_log(current_turn_assistant_text, last_logged_assistant_text)
    THEN st
    ELSE [logs |-> log_chat(st.logs, "ASSISTANT", strip(current_turn_assistant_text),
                            "shutdown", f.r, f.w),
          aborted |-> ~all_assistant_messages_defined]

\* main.py 1753-1755
fallback_user(st, f) ==
    IF st.aborted \/ ~should_log(user_speech_buffer, last_logged_user_text) THEN st
    ELSE [logs |-> log_chat(st.logs, "USER", strip(user_speech_buffer),
                            "shutdown", f.r, f.w),
          aborted |-> FALSE]

\* main.py 1757-1759
fallback_assistant(st, f) ==
    IF st.aborted \/ ~should_log(current_text_buffer, last_logged_assistant_text) THEN st
    ELSE [logs |-> log_chat(st.logs, "ASSISTANT", strip(current_text_buffer),
                            "shutdown", f.r, f.w),
          aborted |-> FALSE]

\* main.py 1731-1763: AudioLoop._save_final_chatlogs
save_final_chatlogs(logs, f1, f2, f3, f4) ==
    fallback_assistant(
        fallback_user(
            final_assistant(
                final_user([logs |-> logs, aborted |-> FALSE], f1), f2), f3), f4).logs

\* main.py 1761-1763: did the body reach "Final chatlog save complete", or did
\* the except clause end it
final_flush_outcome(logs, f1, f2, f3, f4) ==
    IF fallback_assistant(
           fallback_user(
               final_assistant(
                   final_user([logs |-> logs, aborted |-> FALSE], f1), f2), f3), f4).aborted
    THEN "aborted" ELSE "completed"

\* main.py 1898-1905: finally: set the flag, run the final flush
RunFinallyFlush ==
    /\ run_pc = "finally"
    /\ shutdown_initiated' = TRUE
    /\ \E f1, f2, f3, f4 \in SessionFaults :
        /\ chatlogs' = save_final_chatlogs(chatlogs, f1, f2, f3, f4)
        /\ final_flush' = final_flush_outcome(chatlogs, f1, f2, f3, f4)
    /\ run_pc' = "closing"
    /\ UNCHANGED <<tool_vars, writer_vars, task_vars, stop_result, notify_vars, between_turns, save_vars, voice_gate, frame_vars, fault_budget, read_errors, logged_errors,
                   mute_vars, is_muted, is_assistant_speaking, should_stop_speaking,
                   audio_in_queue, turn_vars, worker_vars, capture_vars, recv_pc,
                   call_vars, turn>>

\* main.py 1907-1923 with logger.py 229-251: memory sync, then Logger.close()
\* -> stop_transcription() logs whatever the worker buffers still hold
RunFinallyClose ==
    /\ run_pc = "closing"
    /\ \E fu, fa \in SessionFaults :
        chatlogs' =
            IF ~transcription_enabled THEN chatlogs
            ELSE save_buffered(
                     save_buffered(chatlogs, user_transcription_buffer, "USER", TRUE,
                                   "close", fu.r, fu.w),
                     assistant_transcription_buffer, "ASSISTANT", TRUE, "close",
                     fa.r, fa.w)
    /\ user_transcription_buffer' =
           IF transcription_enabled THEN << >> ELSE user_transcription_buffer
    /\ assistant_transcription_buffer' =
           IF transcription_enabled THEN << >> ELSE assistant_transcription_buffer
    /\ \E sync \in FaultOutcomes :
        \* 1766-1782: _save_session_memory
        IF sync = "ok"
        THEN /\ run_pc' = "ended"
             /\ UNCHANGED <<logged_errors, fault_budget>>
        ELSE /\ logged_errors' = Append(logged_errors, "final_sync")
             /\ fault_budget' = fault_budget - 1
             /\ run_pc' = except_exception("ended", "crashed")
    /\ UNCHANGED <<tool_vars, writer_vars, task_vars, stop_result, notify_vars, between_turns, save_vars, voice_gate, frame_vars, read_errors, final_flush, mute_vars,
                   flag_vars, audio_in_queue, turn_vars, capture_vars,
                   transcription_queue, recv_pc, call_vars, turn>>

(***************************************************************************)
(* The task group of AudioLoop.run, task by task.                          *)
(***************************************************************************)
\* the await in which each task's loop is suspended: out_queue.get (1268),
\* to_thread(read) (1212), the response stream (1343), audio_in_queue.get
\* (1644), asyncio.sleep (1678, 1705)
Suspension(t) ==
    CASE t \in {"send_realtime", "play_audio"} -> "get"
      [] t = "listen_audio" -> "read"
      [] t = "receive_audio" -> "receive"
      [] OTHER -> "sleep"

\* everything but the flags and positions the end of the task group moves
group_frame == <<tool_vars, writer_vars, stop_result, notify_vars, between_turns, save_vars, voice_gate, frame_vars, env_vars, mute_vars,
                 is_muted, is_assistant_speaking, should_stop_speaking, audio_in_queue,
                 turn_vars, chatlogs, worker_vars, capture_vars, call_vars, turn>>

\* a cancellation that a suspended task does not notice
on_cancel_ignored(pc) == pc

\* CancelledError is raised at the await where the task is suspended; it is
\* not an Exception, so no handler of the task catches it (main.py 1280,
\* 1625, 1669, 1694, 1726) and the task ends
on_cancel(pc) == "exited"

\* main.py 1204, 1267, 1337, 1643, 1677, 1704: `while not
\* self.shutdown_initiated`, then the task's await
TaskLoop ==
    \E t \in Tasks :
        /\ run_pc = "running"
        /\ task_pc[t] = "loop"
        /\ task_pc' = [task_pc EXCEPT ![t] = IF shutdown_initiated THEN "exited"
                                             ELSE Suspension(t)]
        /\ UNCHANGED <<group_frame, shutdown_initiated, at_shutdown, recv_pc, run_pc>>

\* what the task waited for arrives (an item, a frame, an event, the timer);
\* the task handles it and comes back to the top of its loop
TaskWake ==
    \E t \in Tasks :
        /\ run_pc = "running"
        /\ task_pc[t] = Suspension(t)
        /\ task_pc' = [task_pc EXCEPT ![t] = "loop"]
        /\ UNCHANGED <<group_frame, shutdown_initiated, at_shutdown, recv_pc, run_pc>>

\* main.py 1464-1470: the shutdown phrase is heard; receive_audio sets the
\* flag and raises KeyboardInterrupt, which ends the task and makes the
\* event loop cancel every other task
ShutdownCommand ==
    /\ run_pc = "running"
    /\ ~shutdown_initiated
    /\ task_pc["receive_audio"] = "receive"
    /\ shutdown_initiated' = TRUE
    /\ at_shutdown' = task_pc
    /\ task_pc' = [task_pc EXCEPT !["receive_audio"] = "exited"]
    /\ recv_pc' = "exited"
    /\ run_pc' = "cancelling"
    /\ UNCHANGED group_frame

\* main.py 1249-1252, 1280-1283, 1625-1628, 1669-1672: an exception escapes a
\* task; the task group cancels the others
TaskRaises ==
    \E t \in {"send_realtime", "listen_audio", "receive_audio", "play_audio"} :
        /\ run_pc = "running"
        /\ task_pc[t] = Suspension(t)
        /\ task_pc' = [task_pc EXCEPT ![t] = "exited"]
        /\ recv_pc' = IF t = "receive_audio" THEN "exited" ELSE recv_pc
        /\ run_pc' = "cancelling"
        /\ UNCHANGED <<group_frame, shutdown_initiated, at_shutdown>>

\* the cancellation reaches a task where it is suspended
TaskCancelled ==
    \E t \in Tasks :
        /\ run_pc = "cancelling"
        /\ task_pc[t] # "exited"
        /\ task_pc' = [task_pc EXCEPT ![t] = on_cancel(task_pc[t])]
        /\ recv_pc' = IF t = "receive_audio" THEN "exited" ELSE recv_pc
        /\ UNCHANGED <<group_frame, shutdown_initiated, at_shutdown, run_pc>>

\* main.py 1858-1874: `async with asyncio.TaskGroup()` is left when every
\* task has ended
GroupJoined ==
    /\ run_pc = "cancelling"
    /\ \A t \in Tasks : task_pc[t] = "exited"
    /\ run_pc' = "finally"
    /\ UNCHANGED <<group_frame, shutdown_initiated, at_shutdown, task_pc, recv_pc>>

(***************************************************************************)
(* The session.                                                            *)
(***************************************************************************)
Next ==
    \/ ReceiveAudioChunk
    \/ ReceiveText
    \/ ReceiveInputTranscription
    \/ ReceiveToolCall
    \/ HandleFunctionCall
    \/ ReceiveToolCancellation
    \/ TurnComplete
    \/ set_mute_state_sync
    \/ set_mute_state
    \/ DebounceWindowElapses
    \/ stop_speaking_api
    \/ ListenAudio
    \/ ListenPut
    \/ SendRealtime
    \/ PlayAudio
    \/ MonitorConnection
    \/ PeriodicMemorySync
    \/ WorkerTranscribe
    \/ WorkerIdle
    \/ SessionAbort
    \/ RunFinallyFlush
    \/ RunFinallyClose

Spec == Init /\ [][Next]_vars

(***************************************************************************)
(* The transcript path of the session: the events that fill the turn       *)
(* accumulators, the turn-completion flush and the shutdown sequence.      *)
(***************************************************************************)
NextLog ==
    \/ ReceiveText
    \/ ReceiveInputTranscription
    \/ TurnComplete
    \/ SessionAbort
    \/ RunFinallyFlush
    \/ RunFinallyClose

SpecLog == Init /\ [][NextLog]_vars

(***************************************************************************)
(* The tool-call path of the session.                                      *)
(***************************************************************************)
NextCalls ==
    \/ ReceiveToolCall
    \/ HandleFunctionCall
    \/ ReceiveToolCancellation
    \/ ReceiveAudioChunk
    \/ TurnComplete
    \/ SessionAbort
    \/ RunFinallyFlush
    \/ RunFinallyClose

SpecCalls == Init /\ [][NextCalls]_vars

(***************************************************************************)
(* Every writer of the transcript: the capture and playback tasks feeding  *)
(* the transcription worker, next to the two flushes.                      *)
(***************************************************************************)
InitWorker ==
    /\ tool_in = NoToolInput
    /\ tool_out = NotExecuted
    /\ mute_state_file = "false"
    /\ InitMuteState
    /\ transcription_enabled \in BOOLEAN
    /\ InitSession

NextWorker ==
    \/ ReceiveAudioChunk
    \/ ReceiveInputTranscription
    \/ TurnComplete
    \/ ListenAudio
    \/ ListenPut
    \/ SendRealtime
    \/ PlayAudio
    \/ WorkerTranscribe
    \/ WorkerIdle
    \/ SessionAbort
    \/ RunFinallyFlush
    \/ RunFinallyClose

SpecWorker == InitWorker /\ [][NextWorker]_vars

(***************************************************************************)
(* The voice gate: audio chunks and transcription fragments arriving,      *)
(* playback, the control-plane stop request, turn completion and shutdown. *)
(* No transcription engine is installed.                                   *)
(***************************************************************************)
InitVoice ==
    /\ tool_in = NoToolInput
    /\ tool_out = NotExecuted
    /\ mute_state_file \in {"true", "false"}
    /\ InitMuteState
    /\ transcription_enabled = FALSE
    /\ InitSession

NextVoice ==
    \/ ReceiveAudioChunk
    \/ ReceiveInputTranscription
    \/ PlayAudio
    \/ stop_speaking_api
    \/ TurnComplete
    \/ SessionAbort
    \/ RunFinallyFlush
    \/ RunFinallyClose

SpecVoice == InitVoice /\ [][NextVoice]_vars

(***************************************************************************)
(* Turns against the control plane: the events of a turn and its           *)
(* completion, interleaved with playback and with stop and mute requests.  *)
(***************************************************************************)
NextTurns ==
    \/ ReceiveAudioChunk
    \/ PlayAudio
    \/ TurnComplete
    \/ stop_speaking_api
    \/ set_mute_state_sync

SpecTurns == InitVoice /\ [][NextTurns]_vars

(***************************************************************************)
(* The two audio pipelines: capture -> outbound queue -> transport and     *)
(* model -> inbound queue -> speaker, with frames and chunks numbered, the *)
(* speaking flag moved by the model's audio and the mute flag by the       *)
(* control plane.  No transcription engine is installed.                   *)
(***************************************************************************)
InitFrames ==
    /\ tool_in = NoToolInput
    /\ tool_out = NotExecuted
    /\ mute_state_file \in {"true", "false"}
    /\ InitMuteState
    /\ transcription_enabled = FALSE
    /\ InitLoop
    /\ TasksUntracked
    /\ frame_no = 1
    /\ chunk_no = 1
    /\ fault_budget = 0

NextFrames ==
    \/ ListenAudio
    \/ ListenPut
    \/ SendRealtime
    \/ ReceiveAudioChunk
    \/ PlayAudio
    \/ TurnComplete
    \/ set_mute_state_sync

SpecFrames == InitFrames /\ [][NextFrames]_vars

(***************************************************************************)
(* Logger.save_chat statement by statement.  The receive loop calls it on  *)
(* the event-loop thread (through log_chat, at turn completion), the       *)
(* transcription worker on its own thread (through log_chat, from          *)
(* _check_and_save_buffered_transcriptions); no lock is taken, and each    *)
(* file access lets the other thread run.                                  *)
(***************************************************************************)
MaxAppends == 3

\* what a file access of save_chat can do
FileOutcomes == IF fault_budget > 0 THEN BOOLEAN ELSE {TRUE}

save_frame_vars == <<tool_vars, writer_vars, task_vars, stop_result, notify_vars,
                     between_turns, voice_gate, frame_vars, read_errors, final_flush,
                     logged_errors, mute_vars, flag_vars, audio_in_queue, turn_vars,
                     worker_vars, capture_vars, recv_pc, call_vars, run_pc, turn>>

\* logger.py 330-343: load_chatlogs reads the file (and returns [] when the
\* read fails), the entry is stamped and appended to the list in memory
SaveChatLoad(t) ==
    /\ save_pc[t] = "idle"
    /\ save_clock < MaxAppends
    /\ \E role \in {"USER", "ASSISTANT"}, readOk \in FileOutcomes :
        LET entry == [timestamp |-> save_clock + 1, role |-> role, writer |-> t]
        IN  /\ save_frame' = [save_frame EXCEPT ![t] =
                  [entry |-> entry,
                   chatlogs |-> Append(load_chatlogs(chatlogs, readOk), entry),
                   before |-> chatlogs]]
            /\ fault_budget' = IF readOk THEN fault_budget ELSE fault_budget - 1
    /\ save_clock' = save_clock + 1
    /\ save_pc' = [save_pc EXCEPT ![t] = "open"]
    /\ UNCHANGED <<save_frame_vars, chatlogs, completed>>

\* logger.py 346: open(..., "w") empties the file; when it raises, the
\* handler at 359 swallows the error and the call returns
SaveChatOpen(t) ==
    /\ save_pc[t] = "open"
    /\ \E openOk \in FileOutcomes :
        IF openOk
        THEN /\ chatlogs' = << >>
             /\ save_pc' = [save_pc EXCEPT ![t] = "dump"]
             /\ UNCHANGED <<save_frame, fault_budget>>
        ELSE /\ save_pc' = [save_pc EXCEPT ![t] = "idle"]
             /\ save_frame' = [save_frame EXCEPT ![t] = NoSaveFrame]
             /\ fault_budget' = fault_budget - 1
             /\ UNCHANGED chatlogs
    /\ UNCHANGED <<save_frame_vars, save_clock, completed>>

\* logger.py 347-348: json.dump writes the list held in memory, and the
\* call returns
SaveChatDump(t) ==
    /\ save_pc[t] = "dump"
    /\ chatlogs' = save_frame[t].chatlogs
    /\ completed' = Append(completed, save_frame[t].entry)
    /\ save_pc' = [save_pc EXCEPT ![t] = "idle"]
    /\ save_frame' = [save_frame EXCEPT ![t] = NoSaveFrame]
    /\ UNCHANGED <<save_frame_vars, save_clock, fault_budget>>

\* both threads append to a log file whose accesses succeed
InitAppends ==
    /\ tool_in = NoToolInput
    /\ tool_out = NotExecuted
    /\ mute_state_file = "false"
    /\ InitMuteState
    /\ transcription_enabled = TRUE
    /\ InitLoopState
    /\ TasksUntracked
    /\ frame_no = 0
    /\ chunk_no = 0
    /\ fault_budget = 0
    /\ save_pc = [t \in SaveThreads |-> "idle"]
    /\ save_frame = [t \in SaveThreads |-> NoSaveFrame]
    /\ save_clock = 0
    /\ completed = << >>

NextAppends ==
    \/ \E t \in SaveThreads : SaveChatLoad(t)
    \/ \E t \in SaveThreads : SaveChatOpen(t)
    \/ \E t \in SaveThreads : SaveChatDump(t)

SpecAppends == InitAppends /\ [][NextAppends]_vars

\* no transcription engine, so the receive loop is the only thread that
\* appends; the accesses to the log file can fail
InitAppendFaults ==
    /\ tool_in = NoToolInput
    /\ tool_out = NotExecuted
    /\ mute_state_file = "false"
    /\ InitMuteState
    /\ transcription_enabled = FALSE
    /\ InitLoopState
    /\ TasksUntracked
    /\ frame_no = 0
    /\ chunk_no = 0
    /\ fault_budget = MaxFaults
    /\ save_pc = [t \in SaveThreads |->
                     IF t = "receive_audio" THEN "idle" ELSE "off"]
    /\ save_frame = [t \in SaveThreads |-> NoSaveFrame]
    /\ save_clock = 0
    /\ completed = << >>

SpecAppendFaults == InitAppendFaults /\ [][NextAppends]_vars

(***************************************************************************)
(* The microphone gate across the assistant's replies: capture and         *)
(* transport run while the model's audio raises the speaking flag, and     *)
(* every turn the model has begun completes.                               *)
(***************************************************************************)
NextGate ==
    \/ ListenAudio
    \/ ListenPut
    \/ SendRealtime
    \/ ReceiveAudioChunk
    \/ TurnComplete
    \/ stop_speaking_api

SpecGate == InitFrames /\ [][NextGate]_vars /\ WF_vars(TurnComplete)

(***************************************************************************)
(* The keep-alive: the connection monitor queues its frame and the sender  *)
(* takes it while the mute flag and the speaking flag move.                *)
(***************************************************************************)
NextKeepAlive ==
    \/ MonitorConnection
    \/ SendRealtime
    \/ ReceiveAudioChunk
    \/ TurnComplete
    \/ set_mute_state_sync

SpecKeepAlive == InitFrames /\ [][NextKeepAlive]_vars

(***************************************************************************)
(* The session in an environment that fails: the capture device raises on  *)
(* reads, the keep-alive, the memory syncs and the hand-over to the        *)
(* transcription worker raise.  A transcription engine is installed; the   *)
(* model sends no audio, so the capture gate stays open.                   *)
(***************************************************************************)
InitFaults ==
    /\ tool_in = NoToolInput
    /\ tool_out = NotExecuted
    /\ mute_state_file = "false"
    /\ InitMuteState
    /\ transcription_enabled = TRUE
    /\ InitLoop
    /\ TasksUntracked
    /\ frame_no = 0
    /\ chunk_no = 0
    /\ fault_budget = MaxFaults

NextFaults ==
    \/ ListenAudio
    \/ ListenPut
    \/ SendRealtime
    \/ MonitorConnection
    \/ PeriodicMemorySync
    \/ WorkerTranscribe
    \/ WorkerIdle
    \/ SessionAbort
    \/ RunFinallyFlush
    \/ RunFinallyClose

SpecFaults == InitFaults /\ [][NextFaults]_vars

(***************************************************************************)
(* The mute state: process start from any state file, the two set          *)
(* variants, the passing of time, and the capture gate reading the flag.   *)
(***************************************************************************)
InitMute ==
    /\ tool_in = NoToolInput
    /\ tool_out = NotExecuted
    /\ mute_state_file \in MuteFileContents
    /\ InitMuteState
    /\ transcription_enabled = FALSE
    /\ InitSession

NextMute ==
    \/ set_mute_state_sync
    \/ set_mute_state
    \/ DebounceWindowElapses
    \/ ReceiveAudioChunk
    \/ ListenAudio
    \/ ListenPut
    \/ SendRealtime
    \/ TurnComplete
    \/ SessionAbort

SpecMute == InitMute /\ [][NextMute]_vars

(***************************************************************************)
(* The writers of the mute state, statement by statement: two handlers of  *)
(* the control plane, each calling the synchronous variant and then the    *)
(* awaitable one, which calls the setter of the audio loop.                *)
(***************************************************************************)
InitWriters ==
    /\ tool_in = NoToolInput
    /\ tool_out = NotExecuted
    /\ mute_state_file \in {"true", "false"}
    /\ InitMuteState
    /\ transcription_enabled = FALSE
    /\ InitSession

NextWriters ==
    \/ HandlerStart
    \/ SyncAssign
    \/ SyncSave
    \/ SyncLoop
    \/ AcquireLock
    \/ LockWake
    \/ AsyncTest
    \/ AsyncSave
    \/ SetterAssign
    \/ SetterSave
    \/ Notify
    \/ NotifyDone

SpecWriters == InitWriters /\ [][NextWriters]_vars

(***************************************************************************)
(* The subscribers of the mute state: one or more callbacks registered,    *)
(* some of which raise when they are called.                               *)
(***************************************************************************)
CallbackLists == {[i \in 1..n |-> i] : n \in 1..MaxSubscribers}

InitNotify ==
    /\ tool_in = NoToolInput
    /\ tool_out = NotExecuted
    /\ mute_state_file \in {"true", "false"}
    /\ \E callbacks \in CallbackLists : InitMuteStore(callbacks)
    /\ transcription_enabled = FALSE
    /\ InitLoop
    /\ TasksUntracked
    /\ frame_no = 0
    /\ chunk_no = 0
    /\ fault_budget = MaxFaults

NextNotify ==
    \/ set_mute_state_sync
    \/ set_mute_state
    \/ DebounceWindowElapses

SpecNotify == InitNotify /\ [][NextNotify]_vars

(***************************************************************************)
(* The end of the task group: the six tasks between the top of their loop  *)
(* and their await, the shutdown phrase, an escaping exception, the        *)
(* cancellation of the remaining tasks and the finally block.              *)
(***************************************************************************)
InitTasks ==
    /\ tool_in = NoToolInput
    /\ tool_out = NotExecuted
    /\ mute_state_file = "false"
    /\ InitMuteState
    /\ transcription_enabled = FALSE
    /\ InitLoop
    /\ frame_no = 0
    /\ chunk_no = 0
    /\ fault_budget = 0
    /\ task_pc = [t \in Tasks |-> "loop"]
    /\ at_shutdown = [t \in Tasks |-> "untracked"]

NextTasks ==
    \/ TaskLoop
    \/ TaskWake
    \/ ShutdownCommand
    \/ TaskRaises
    \/ TaskCancelled
    \/ GroupJoined
    \/ RunFinallyFlush
    \/ RunFinallyClose

\* the event loop delivers every cancellation it was asked for and resumes
\* the coroutine that waits for the task group
SpecTasks ==
    /\ InitTasks
    /\ [][NextTasks]_vars
    /\ WF_vars(TaskCancelled)
    /\ WF_vars(GroupJoined)

(***************************************************************************)
(* execute_tool as a function: every name, argument mapping and handler    *)
(* outcome is an initial state; Execute applies the dispatcher once.       *)
(***************************************************************************)
InitTool ==
    /\ tool_in \in ToolInputs
    /\ tool_out = NotExecuted
    /\ mute_state_file = "missing"
    /\ InitMuteState
    /\ transcription_enabled = FALSE
    /\ InitSession

Execute ==
    /\ ~tool_out.done
    /\ tool_out' = [done |-> TRUE,
                    out |-> execute_tool(tool_in.name, tool_in.args, tool_in.h,
                                         tool_in.automation)]
    /\ UNCHANGED <<tool_in, writer_vars, task_vars, stop_result, notify_vars, between_turns, save_vars, voice_gate, frame_vars, env_vars, mute_vars, flag_vars, audio_in_queue, turn_vars, chatlogs, worker_vars,
                   capture_vars, recv_pc, call_vars, run_pc, turn>>

NextTool == Execute

SpecTool == InitTool /\ [][NextTool]_vars

(***************************************************************************)
(* Properties of the tool dispatcher (checked under SpecTool).             *)
(***************************************************************************)
ToolReturned == tool_out.done /\ ~tool_out.out.raised
ToolRaised == tool_out.done /\ tool_out.out.raised
HandlerRaised == tool_out.done /\ tool_out.out.handlerCalled /\ tool_in.h.raises
HasMessage(r) == "message" \in DOMAIN r
IsText(m) == \A i \in 1..Len(m) : m[i] \in STRING

\* C3: execute_tool is total: for every function name and argument mapping it
\* returns without raising, and when the selected handler raises, the result
\* has status "error" and a non-empty message.
C3_ExecuteToolTotal ==
    tool_out.done =>
        /\ ~tool_out.out.raised
        /\ (tool_in.h.raises /\ tool_out.out.handlerCalled) =>
               /\ tool_out.out.result.status = "error"
               /\ HasMessage(tool_out.out.result)
               /\ IsNonEmptyMsg(tool_out.out.result.message)

\* C4: a function name outside the registry yields a result with status
\* "error", without raising and without invoking any handler.
C4_UnknownNameIsError ==
    (tool_out.done /\ tool_in.name \notin Registry) =>
        /\ ~tool_out.out.raised
        /\ tool_out.out.result.status = "error"
        /\ ~tool_out.out.handlerCalled

\* C5 as stated: for every registered tool and handler outcome the returned
\* result has a status of "success" or "error" and a string message.
C5_StatusAndMessage ==
    (ToolReturned /\ tool_in.name \in Registry) =>
        /\ tool_out.out.result.status \in {"success", "error"}
        /\ HasMessage(tool_out.out.result)
        /\ IsText(tool_out.out.result.message)

\* C5 amended: for every registered tool and handler outcome the returned
\* result has a status of "success" or "error"; a message, when present, is a
\* string; and a message is present whenever the handler raised or the tool
\* is not one whose mapping is passed through or built without a message.
C5_ResultShape ==
    (ToolReturned /\ tool_in.name \in Registry) =>
        /\ tool_out.out.result.status \in {"success", "error"}
        /\ HasMessage(tool_out.out.result) => IsText(tool_out.out.result.message)
        /\ (HandlerRaised \/ tool_in.name \notin (DictTools \cup NoMessageTools))
               => HasMessage(tool_out.out.result)

\* a mapping handler's success result is returned as it came, without a
\* message: the case the amendment leaves to the handler
C5_Witness ==
    /\ ToolReturned
    /\ tool_in.name = "get_weather"
    /\ tool_out.out.handlerCalled
    /\ tool_out.out.result.status = "success"
    /\ ~HasMessage(tool_out.out.result)

(***************************************************************************)
(* Properties of the tool-call path (checked under SpecCalls).             *)
(***************************************************************************)
ResponsesTo(id) == {i \in 1..Len(tool_responses) : tool_responses[i].id = id}

\* C1: every function call the receive loop has handled, whatever became of
\* its dispatch, has exactly one tool response keyed to its id sent back.
C1_EveryCallAnswered ==
    \A i \in 1..Len(tool_log) : Cardinality(ResponsesTo(tool_log[i].id)) = 1

ToolFailureStep ==
    /\ Len(tool_log') = Len(tool_log) + 1
    /\ tool_log'[Len(tool_log')].outcome \in {"dispatch_raised", "send_failed"}

\* C2: a step in which a dispatch raises or a response cannot be transmitted
\* leaves the shutdown flag as it was and the session running, removes only
\* the failed call from the event, and leaves the receive loop at the next
\* call of the event or, after the last one, at the next event.
C2_ToolFailureNotFatal ==
    [][ToolFailureStep =>
          /\ shutdown_initiated' = shutdown_initiated
          /\ run_pc' = "running"
          /\ function_calls' = Tail(function_calls)
          /\ recv_pc' = IF function_calls' = << >> THEN "receiving" ELSE "tool_calls"]_vars

\* a failed call followed by an answered one, the loop waiting for events
C2_Witness ==
    /\ Len(tool_log) = 2
    /\ tool_log[1].outcome \in {"dispatch_raised", "send_failed"}
    /\ tool_log[2].outcome = "sent"
    /\ Len(tool_responses) = 1
    /\ RecvReady
    /\ is_assistant_speaking

(***************************************************************************)
(* Properties of the transcript (checked under SpecLog and SpecWorker).    *)
(***************************************************************************)
LinesOf(logs, role) == SelectSeq(logs, LAMBDA l : l.role = role)
Contents(lines) == [i \in 1..Len(lines) |-> lines[i].content]
LinesOfTurn(role, t) == {i \in 1..Len(chatlogs) :
                            chatlogs[i].role = role /\ chatlogs[i].turn = t}

\* C6: for every turn and each role, at most one line of the transcript was
\* written during that turn, whichever writer wrote it.
C6_AtMostOneLinePerTurn ==
    \A t \in 0..MaxTurns : \A role \in {"USER", "ASSISTANT"} :
        Cardinality(LinesOfTurn(role, t)) <= 1

\* the lines a step appends to the transcript
Appended == SubSeq(chatlogs', Len(chatlogs) + 1, Len(chatlogs'))

\* C7: when a turn completes holding text for a role, that step appends
\* exactly one line for the role, and the line is the accumulated text.
C7_TurnCompleteLogsOnce ==
    [][turn' = turn + 1 =>
          /\ strip(current_turn_user_text) # EmptyText =>
                 Contents(LinesOf(Appended, "USER")) = <<strip(current_turn_user_text)>>
          /\ strip(current_turn_assistant_text) # EmptyText =>
                 Contents(LinesOf(Appended, "ASSISTANT"))
                     = <<strip(current_turn_assistant_text)>>]_vars

LinesFor(role, text, t) == {i \in 1..Len(chatlogs) :
                               /\ chatlogs[i].role = role
                               /\ chatlogs[i].turn = t
                               /\ chatlogs[i].content = strip(text)}

\* C8: once shutdown has completed, non-empty user text that the interrupted
\* turn held when shutdown began has exactly one line in the transcript.
C8_ShutdownLogsUserText ==
    (run_pc = "ended" /\ strip(current_turn_user_text) # EmptyText) =>
        Cardinality(LinesFor("USER", current_turn_user_text, turn)) = 1

ShutdownLines(role, text) == {i \in 1..Len(chatlogs) :
                                 /\ chatlogs[i].writer = "shutdown"
                                 /\ chatlogs[i].role = role
                                 /\ chatlogs[i].content = strip(text)}

\* C9: when shutdown interrupts a turn whose user and assistant accumulators
\* both hold non-empty text differing from the last logged text, the shutdown
\* flush has written the user text once and the assistant text once.
C9_ShutdownLogsBothRoles ==
    (/\ run_pc \in {"closing", "ended"}
     /\ should_log(current_turn_user_text, last_logged_user_text)
     /\ should_log(current_turn_assistant_text, last_logged_assistant_text)) =>
        /\ Cardinality(ShutdownLines("USER", current_turn_user_text)) = 1
        /\ Cardinality(ShutdownLines("ASSISTANT", current_turn_assistant_text)) = 1

EmptyFlushStep ==
    /\ \/ turn' = turn + 1
       \/ run_pc = "finally" /\ run_pc' = "closing"
    /\ current_turn_user_text = EmptyText
    /\ current_turn_assistant_text = EmptyText

\* C10: a turn-completion flush or a shutdown flush that finds both
\* accumulators empty writes no line and leaves the session-message list, the
\* last-logged values and the accumulators as they were.
C10_EmptyFlushIsNoOp ==
    [][EmptyFlushStep =>
          /\ chatlogs' = chatlogs
          /\ session_messages' = session_messages
          /\ last_logged_user_text' = last_logged_user_text
          /\ last_logged_assistant_text' = last_logged_assistant_text
          /\ current_turn_user_text' = EmptyText
          /\ current_turn_assistant_text' = EmptyText]_vars

\* both flushes have run on empty accumulators after a turn that logged text
C10_Witness ==
    /\ run_pc = "closing"
    /\ turn = 2
    /\ current_turn_user_text = EmptyText
    /\ current_turn_assistant_text = EmptyText
    /\ last_logged_user_text # EmptyText
    /\ Len(chatlogs) = 1
    /\ chatlogs[1].turn = 0

(***************************************************************************)
(* Voice interruption, discarded speech and shutdown phrases.              *)
(***************************************************************************)
\* a step that handles a transcription fragment while the assistant speaks;
\* the fragment is current_turn_user_text'
GatedStep == voice_gate' # voice_gate /\ voice_gate'.verdict # "none"

\* a step that handles a transcription fragment while the assistant is silent
\* and stores a new text
UngatedStep == voice_gate' = NoFragment /\ user_speech_buffer' # user_speech_buffer
               /\ user_speech_buffer' # EmptyText

\* the messages a step appends to the session messages
AppendedMessages == SubSeq(session_messages', Len(session_messages) + 1,
                           Len(session_messages'))

\* a step writes the text as a user turn, to the transcript or the session
LoggedAsUser(text) ==
    \/ \E i \in 1..Len(Appended) :
           Appended[i].role = "USER" /\ Appended[i].content = strip(text)
    \/ \E i \in 1..Len(AppendedMessages) :
           AppendedMessages[i].role = "user" /\ AppendedMessages[i].content = strip(text)

\* C11: when a fragment containing a stop phrase is handled while the
\* assistant is speaking and the microphone is not muted, the step leaves the
\* speaking flag false, the stop flag set and the inbound audio queue empty.
C11_VoiceStopInterrupts ==
    [][(GatedStep /\ is_assistant_speaking /\ ~is_muted
            /\ HasToken(current_turn_user_text', StopTokens)) =>
          (~is_assistant_speaking' /\ should_stop_speaking' /\ audio_in_queue' = << >>)]_vars

\* a stop phrase heard while speaking and unmuted has been accepted
C11_Witness ==
    /\ voice_gate.verdict = "stop"
    /\ HasToken(current_turn_user_text, StopTokens)
    /\ ~is_muted
    /\ ~is_assistant_speaking
    /\ should_stop_speaking
    /\ audio_in_queue = << >>

\* C12: while the accumulator holds a fragment that was accepted as a voice
\* stop command, no step writes that fragment as a user turn, neither to the
\* transcript (turn completion, shutdown flush) nor to the session messages.
C12_StopFragmentNotLogged ==
    [][voice_gate.verdict = "stop" => ~LoggedAsUser(current_turn_user_text)]_vars

\* C13: no step raises the stop flag unless the assistant is speaking and the
\* microphone is not muted, and a stop phrase handled while the assistant is
\* speaking and the microphone is muted leaves the stop flag, the speaking
\* flag and the inbound audio queue as they were.
C13_StopOnlyWhenSpeakingUnmuted ==
    [][/\ (should_stop_speaking' /\ ~should_stop_speaking) =>
              (is_assistant_speaking /\ ~is_muted)
       /\ (GatedStep /\ is_assistant_speaking /\ is_muted
              /\ HasToken(current_turn_user_text', StopTokens)) =>
              UNCHANGED <<should_stop_speaking, is_assistant_speaking, audio_in_queue>>]_vars

\* a stop phrase was heard while speaking and muted, and nothing was stopped
C13_Witness ==
    /\ voice_gate.verdict = "ignored"
    /\ HasToken(current_turn_user_text, StopTokens)
    /\ is_muted
    /\ is_assistant_speaking
    /\ ~should_stop_speaking
    /\ audio_in_queue # << >>

\* C14: a fragment heard while the assistant is speaking and not accepted as
\* a stop command is not stored in the user accumulator and no step writes
\* it as a user turn.
C14_GatedFragmentDiscarded ==
    [][/\ (GatedStep /\ voice_gate'.verdict # "stop") =>
              current_turn_user_text' = current_turn_user_text
       /\ voice_gate.verdict \in {"ignored", "shutdown"} =>
              ~LoggedAsUser(current_turn_user_text)]_vars

\* C15: every step that handles a fragment containing a shutdown phrase,
\* whether the assistant is speaking or silent, muted or not, initiates
\* shutdown and leaves the running phase.
C15_ShutdownPhraseAlwaysWorks ==
    [][((GatedStep \/ UngatedStep) /\ HasToken(current_turn_user_text', ShutdownTokens)) =>
          (shutdown_initiated' /\ run_pc' # "running")]_vars

\* C16: while the stop flag is set, no step plays an audio chunk of the
\* current turn.
C16_NoPlaybackAfterStop ==
    [][(should_stop_speaking /\ audio_in_queue # << >> /\ Head(audio_in_queue).turn = turn) =>
          assistant_audio_chunk_count' = assistant_audio_chunk_count]_vars

(***************************************************************************)
(* Properties of the mute state (checked under SpecMute).                  *)
(***************************************************************************)
\* C17: of the mute requests arriving within one 200 ms window, whichever
\* set variant carries them, at most one is applied.
C17_OneAppliedPerWindow == window_applied <= 1

\* C18: whenever the most recent write of the state file succeeded, the
\* file holds the in-memory mute value.
C18_FileAgreesWithMemory ==
    last_write = "ok" => mute_state_file = mute_text(is_muted)

\* an awaitable set applied after a start on the default, written through
C18_Witness ==
    /\ boot_default
    /\ mute_result.variant = "async"
    /\ mute_result.applied
    /\ last_write = "ok"
    /\ ~is_muted
    /\ mute_state_file = "false"

\* C19: when an applied request leaves the state file without the requested
\* value because a write failed, the in-memory state has the requested value
\* and the call reports the failure (sync: false; awaitable: success false
\* with a file-save error).
C19_WriteFailureReported ==
    (mute_result.applied /\ last_write # "ok"
                         /\ mute_state_file # mute_text(mute_result.requested)) =>
        /\ is_muted = mute_result.requested
        /\ ~mute_result.success
        /\ mute_result.variant = "async" => "file_save_failed" \in mute_result.errors

\* C20: until a set call is made the mute state is the persisted value, or
\* muted when the file holds no such value; and after a start on the default
\* no frame is in the outbound queue before an unmute has been applied.
C20_StartsMutedByDefault ==
    /\ mute_result = NoCall => is_muted = (mute_state_file # "false")
    /\ (boot_default /\ ~unmute_applied) => (is_muted /\ out_queue = << >>)

\* after a start on the default, frames flow once an unmute was applied
C20_Witness ==
    /\ boot_default
    /\ unmute_applied
    /\ ~is_muted
    /\ out_queue # << >>

\* a step in which a mute request is applied, by either set variant
AppliedStep == window_applied' = window_applied + 1

\* C21: every step that applies an unmute, by the synchronous or the awaitable
\* variant, leaves is_assistant_speaking false, and every step that applies a
\* mute leaves is_assistant_speaking as it was.
C21_UnmuteClearsSpeaking ==
    [][AppliedStep =>
          /\ ~is_muted' => ~is_assistant_speaking'
          /\ is_muted' => is_assistant_speaking' = is_assistant_speaking]_vars

\* an unmute was applied while the assistant was speaking: its audio is still
\* queued and the speaking flag is down
C21_Witness ==
    /\ mute_result.applied
    /\ ~mute_result.requested
    /\ ~is_muted
    /\ ~is_assistant_speaking
    /\ audio_in_queue # << >>

(***************************************************************************)
(* Properties of the audio pipelines (checked under SpecFrames).           *)
(***************************************************************************)
GateOpen == ~is_muted /\ ~is_assistant_speaking

\* C23: a step enqueues a frame to the outbound queue or adds one to the user
\* audio buffer only if the gate is open in that step or the frame passed the
\* gate earlier and was waiting for space; and a frame starts to wait only
\* when the gate is open.  A frame read with the gate closed goes nowhere.
C23_CaptureGate ==
    [][/\ (Len(out_queue') > Len(out_queue)
              \/ user_audio_chunk_count' # user_audio_chunk_count) =>
              (GateOpen \/ put_waiting # << >>)
       /\ (put_waiting' # << >> /\ put_waiting = << >>) => GateOpen]_vars

\* frames passed the gate, and the gate has closed on the ones still queued
C23_Witness ==
    /\ frame_no > 2
    /\ Len(out_queue) >= 2
    /\ is_muted
    /\ is_assistant_speaking

\* C24: every step that hands a frame to the model transport starts with
\* muted false and assistant_speaking false.
C24_TransmitGate == [][wire' # wire => GateOpen]_vars

\* two frames passed the capture gate, the first was transmitted and the
\* second was dequeued and dropped
C24_Witness ==
    /\ frame_no = 3
    /\ out_queue = << >>
    /\ put_waiting = << >>
    /\ wire = 1

C26_OutboundBackpressure ==
    [][/\ Len(out_queue') <= OutQueueMax
       /\ put_waiting # << >> =>
              \/ put_waiting' = put_waiting /\ Len(out_queue') <= Len(out_queue)
              \/ put_waiting' = << >>
                   /\ out_queue' = Append(out_queue, put_waiting[1])]_vars

\* a frame that had to wait was enqueued, and the queue is full again
C26_Witness ==
    /\ last_put_waited
    /\ put_waiting = << >>
    /\ Len(out_queue) = OutQueueMax
    /\ out_queue[OutQueueMax] = OutQueueMax + 1

\* C27: the inbound audio queue stops growing before the exploration bound
\* of the model, whatever the playback task does.
C27_InboundQueueBounded == Len(audio_in_queue) < MaxAudioQueue

(***************************************************************************)
(* Properties of the end of the session.                                   *)
(***************************************************************************)
\* C28: whenever the session has reached the memory sync or has ended, the
\* shutdown flag is set and the final transcript flush ran to completion.
C28_FlushBeforeMemorySync ==
    run_pc \in {"closing", "ended"} =>
        (shutdown_initiated /\ final_flush = "completed")

\* the statements between a writer's assignment of the flag and the end of
\* its writes of the file
ApplyPcs == {"sync_save", "sync_loop", "async_save", "setter_assign", "setter_save"}

Applying(h) == handler_pc[h] \in ApplyPcs

\* C22: however the handlers that write the mute state interleave, at most
\* one of them is between its assignment of the flag and the end of its file
\* writes, and once all of them have finished and the last write succeeded
\* the file holds the in-memory value
C22_OneWriterApplies ==
    /\ \A g, h \in Handlers : (Applying(g) /\ Applying(h)) => g = h
    /\ ((\A h \in Handlers : handler_pc[h] = "idle") /\ last_write = "ok")
           => mute_state_file = mute_text(is_muted)

\* one handler is suspended in its notification, holding the lock, while the
\* other one applies the opposite value through the synchronous variant
C22_Witness ==
    /\ handler_pc["websocket_ui"] = "notifying"
    /\ state_lock = "websocket_ui"
    /\ handler_pc["rest_api"] = "sync_save"
    /\ handler_arg["rest_api"] # handler_arg["websocket_ui"]
    /\ is_muted = handler_arg["rest_api"]

\* a step in which the failure of a secondary channel is logged
SecondaryFailureLogged == Len(logged_errors') > Len(logged_errors)

\* C29: a failure of a secondary channel (keep-alive, periodic memory sync,
\* final memory sync, hand-over to the transcription worker) is logged and
\* goes no further: the shutdown flag keeps its value, the receive task keeps
\* its position, a running session keeps running with its audio tasks, and
\* a closing session closes
C29_SecondaryErrorsSwallowed ==
    [][SecondaryFailureLogged =>
         /\ shutdown_initiated' = shutdown_initiated
         /\ recv_pc' = recv_pc
         /\ run_pc = "running" => run_pc' = "running"
         /\ run_pc = "closing" => run_pc' = "ended"]_vars

\* failures of two different secondary channels were logged, and the session
\* runs with the shutdown flag unset
C29_Witness ==
    /\ Len(logged_errors) >= 2
    /\ logged_errors[1] # logged_errors[2]
    /\ run_pc = "running"
    /\ recv_pc = "receiving"
    /\ ~shutdown_initiated

\* C30: a capture task that has met MaxFaults read errors in a row has given
\* up: the session is no longer running
C30_RetriesExhausted == read_errors >= MaxFaults => run_pc # "running"

AllTasksExited == \A t \in Tasks : task_pc[t] = "exited"

\* C31: once the shutdown flag is set, every task of the session eventually
\* ends, wherever it was suspended when the flag was set
C31_TasksExitAfterShutdown == shutdown_initiated ~> AllTasksExited

\* the flag was set while the transmit task waited on its queue and the
\* monitor and the periodic sync slept, and every task has ended
C31_Witness ==
    /\ shutdown_initiated
    /\ at_shutdown["send_realtime"] = "get"
    /\ at_shutdown["play_audio"] = "get"
    /\ at_shutdown["monitor_connection"] = "sleep"
    /\ at_shutdown["periodic_memory_sync"] = "sleep"
    /\ AllTasksExited

\* a step in which a stop request is answered differently from the one before
StopAnswered == stop_result' # stop_result

TurnCompleted == turn' = turn + 1

\* C35: after the turn-completion flush both accumulators are empty, the
\* speaking and stop-speaking flags are down and the inbound audio queue is
\* empty
C35_TurnCompletionResets ==
    [][TurnCompleted =>
         /\ current_turn_user_text' = EmptyText
         /\ current_turn_assistant_text' = EmptyText
         /\ ~is_assistant_speaking'
         /\ ~should_stop_speaking'
         /\ audio_in_queue' = << >>]_vars

\* the accumulated text is new: non-empty once trimmed, and not the text
\* logged last for the role
NewText(text, last_logged) == strip(text) # EmptyText /\ strip(text) # last_logged

OneIf(cond, x) == IF cond THEN <<x>> ELSE << >>

\* C36: at turn completion the text of a role is written to the transcript
\* if and only if it is new; exactly then it is appended once to the session
\* messages and becomes the last logged text of the role
C36_LoggedIffNewText ==
    [][TurnCompleted =>
         LET newU == NewText(current_turn_user_text, last_logged_user_text)
             newA == NewText(current_turn_assistant_text, last_logged_assistant_text)
             u == strip(current_turn_user_text)
             a == strip(current_turn_assistant_text)
         IN  /\ Contents(LinesOf(Appended, "USER")) = OneIf(newU, u)
             /\ Contents(LinesOf(Appended, "ASSISTANT")) = OneIf(newA, a)
             /\ AppendedMessages = OneIf(newU, [role |-> "user", content |-> u])
                                      \o OneIf(newA, [role |-> "assistant", content |-> a])
             /\ last_logged_user_text' = IF newU THEN u ELSE last_logged_user_text
             /\ last_logged_assistant_text' =
                    IF newA THEN a ELSE last_logged_assistant_text]_vars

\* two turns have completed; the first logged a text for each role and the
\* second logged nothing more
C36_Witness ==
    /\ turn = 2
    /\ Len(chatlogs) = 2
    /\ chatlogs[1].turn = 0
    /\ chatlogs[2].turn = 0
    /\ Len(session_messages) = 2
    /\ last_logged_user_text = chatlogs[1].content
    /\ last_logged_assistant_text = chatlogs[2].content

\* a step of the awaitable variant, applied or rejected
AwaitableCall == mute_result' # mute_result /\ mute_result'.variant = "async"

\* C37: an applied call of the awaitable variant calls every registered
\* subscriber once, in order, with the new value, which is by then the
\* in-memory value and (the write succeeding) the file content, whether or
\* not subscribers raise; a rejected call calls no subscriber
C37_SubscribersNotifiedOnce ==
    [][AwaitableCall =>
         IF mute_result'.applied
         THEN /\ Len(notified') = Len(state_change_callbacks)
              /\ \A i \in 1..Len(notified') :
                     /\ notified'[i].subscriber = state_change_callbacks[i]
                     /\ notified'[i].value = mute_result'.requested
              /\ is_muted' = mute_result'.requested
              /\ last_write' = "ok" => mute_state_file' = mute_text(is_muted')
         ELSE /\ notified' = << >>
              /\ UNCHANGED <<is_muted, mute_state_file>>]_vars

\* the first of two subscribers raised, the second was called all the same
\* and the change was applied
C37_Witness ==
    /\ Len(state_change_callbacks) = 2
    /\ Len(notified) = 2
    /\ notified[1].raised
    /\ ~notified[2].raised
    /\ mute_result.applied
    /\ is_muted = notified[2].value

\* C38: while the receive loop is between two turns the stop-speaking flag
\* is down, whatever stop and mute requests the control plane handles
C38_NoStopBetweenTurns == between_turns => ~should_stop_speaking

\* the first turn has completed, the last stop request was rejected because
\* the assistant was silent, and the flag is down
C38_Witness ==
    /\ between_turns
    /\ turn = 1
    /\ stop_result = "not_speaking"
    /\ ~is_muted
    /\ ~should_stop_speaking

\* C32: a keep-alive frame that the monitor has queued is transmitted: when it
\* leaves the outbound queue it goes on the wire, whatever the mute flag and
\* the speaking flag are
C32_KeepAliveTransmitted ==
    [][(/\ out_queue # << >>
        /\ Head(out_queue) = KeepAliveFrame
        /\ out_queue' = Tail(out_queue))
       => wire' = KeepAliveFrame]_vars

AllSavesReturned == \A t \in SaveThreads : save_pc[t] = "idle"

\* C33: appends to the transcript are atomic and keep their order under
\* concurrency: once the calls of the receive loop and of the transcription
\* worker have returned, the log holds every appended entry, in the order
\* the calls returned
C33_AppendsAtomicOrdered == AllSavesReturned => chatlogs = completed

\* C40: the transcript is append-only across failures: when an append
\* returns after writing, every entry that the log held when the call began
\* is still in the log, also when reading the log failed during the call
C40_AppendOnlyAcrossFailures ==
    [][\A t \in SaveThreads :
         (save_pc[t] = "dump" /\ save_pc'[t] = "idle")
         => \A i \in 1..Len(save_frame[t].before) :
                \E j \in 1..Len(chatlogs') : chatlogs'[j] = save_frame[t].before[i]]_vars

\* C39: the microphone gate reopens: whenever the speaking flag is up in a
\* turn that completes, it comes down again, so that an open microphone is
\* forwarded again after the reply
C39_GateReopens ==
    (is_assistant_speaking /\ turn < MaxTurns) ~> ~is_assistant_speaking

\* a reply has been received and a turn has completed; the speaking flag is
\* down, the microphone gate is open and frames have reached the transport
C39_Witness ==
    /\ turn >= 1
    /\ chunk_no > 1
    /\ ~is_assistant_speaking
    /\ transmit_gate(is_muted, is_assistant_speaking)
    /\ wire >= 2

=============================================================================
